---- MODULE Spec2Model ----
(***************************************************************************)
(* Model of the agent execution core of agent-ml-engineer:                 *)
(*   - the orchestration loop of MLEngineerAgent (ml_engineer/agent.py),   *)
(*   - the session / event layer of the HTTP server (server.py) together   *)
(*     with the process-wide execution state of python_executor.py.        *)
(* Four specifications share the module: SpecLoop drives one agent run,    *)
(* SpecServer drives two sessions with their run tasks, worker threads and *)
(* pollers, SpecBus drives one session and a subscriber of its events,     *)
(* SpecRepl follows the calls of run_python_repl statement by statement.   *)
(***************************************************************************)
EXTENDS Integers, Sequences, FiniteSets, TLC

\* ------------------------------------------------------------------------
\* Bounds of the model (not program constants)
\* ------------------------------------------------------------------------
\* largest max_iterations argument passed to MLEngineerAgent
MaxIterArg == 3
\* number of reasoning-engine calls whose response is chosen freely; later
\* calls repeat the response kind fixed for the run (scripted engine)
MaxFree == 2
\* most ActionRequests carried by one response
MaxCalls == 2
\* run_python_repl calls made over all Runs
MaxExec == 2
\* images captured by one execution
MaxPlots == 2
\* run_python_repl calls followed statement by statement
MaxRepl == 3
\* operations on the interface of python_executor in one behaviour
MaxApi == 4
\* tokens of a message content given to the tag extractors
MaxTokens == 4
MaxRuns == 2

\* ------------------------------------------------------------------------
\* Program constants
\* ------------------------------------------------------------------------
\* Config.MAX_ITERATIONS default
MAX_ITERATIONS == 15
\* the recursion_limit of a workflow invocation that is given no config
DEFAULT_RECURSION_LIMIT == 25
\* max_iterations passed by websocket_endpoint and by stream_analysis
WS_MAX_ITERATIONS == 12
API_MAX_ITERATIONS == 52

VARIABLES
    \* ---- orchestration loop (one MLEngineerAgent object) ----
    mi_arg,            \* the max_iterations argument given to __init__
    entry,             \* the method that drives the workflow: run or stream_run
    steps,             \* supersteps of the workflow executed by this invocation
    max_iterations,    \* self.max_iterations
    iteration_count,   \* self.iteration_count
    messages,          \* state["messages"]
    node,              \* position in the LangGraph workflow
    llm_calls,         \* number of llm_with_tools.invoke calls made
    dispatched,        \* ids handed to tool_map[name].invoke, in order
    tail,              \* response kind the engine repeats after MaxFree calls
    next_id,           \* next ActionRequest id the engine will issue
    \* ---- python_executor module globals (one per process) ----
    persistent_namespace,  \* _persistent_namespace: the names bound
    execution_history,     \* _execution_history
    \* ---- SessionState, per session ----
    event_history,     \* session.event_history
    prompts,           \* session.prompts
    current_task,      \* session.current_task
    listeners,         \* session._listeners (the subscribers' queues)
    \* ---- run_agent_for_session task, per session ----
    task_pc,           \* where the task is suspended
    active_tasks,      \* run_agent_for_session tasks created and not finished
    thread_pc,         \* the worker thread running agent.run
    exec_count,        \* run_python_repl calls made by the session's Runs
    run_records,       \* the records the current Run appended, in order
    result,            \* what agent.run returned
    agent_done,        \* agent_future.done() and its outcome
    \* ---- stream_execution_events task, per session ----
    poller_pc,
    processed,         \* the poller's local 'processed'
    \* ---- session_events handlers (websocket subscribers) ----
    sub_pc,
    sub_session,
    sub_idx,           \* position of the replay iterator in event_history
    sub_queue,         \* the subscriber's asyncio.Queue
    sub_sent,          \* events passed to websocket.send_json, in order
    \* ---- the HTTP side ----
    last_reply,        \* status code of the latest /chat response
    \* ---- the asyncio event loop of the server process ----
    loop_running,      \* FALSE once the loop stopped and cancelled its tasks
    \* ---- one caller of run_python_repl, followed statement by statement ----
    caller,            \* the thread that calls: "main_thread" or "to_thread"
    in_run,            \* agent.run is between its reset and its return
    repl_pc,           \* position inside run_python_repl
    ran,               \* statements of the command that have completed
    pending,           \* the local 'result' of the call in progress
    captured,          \* plot_capture.plots
    stderr_capture,    \* stderr_capture.getvalue()
    alarm,             \* the process's SIGALRM timer: "off" or "armed"
    sig_handler,       \* the installed SIGALRM handler
    repl_calls,        \* calls started since the last clear_history
    repl_total,        \* calls started since the process started
    escaped,           \* the exception that left the latest call, or "none"
    discarded,         \* the names the latest reset removed
    \* ---- python_executor's interface, with values and object identities ----
    namespace,         \* _persistent_namespace as a dict: name -> value
    objects,           \* the result dictionaries that exist, by identity
    history_list,      \* _execution_history: the identities it holds
    returned_list,     \* the list a get_execution_history call returned
    api_op,            \* the latest operation
    api_arg,           \* the argument of the latest inject_variables
    api_calls,         \* operations so far
    \* ---- one assistant message given to the tag extractors ----
    msg_content,       \* message.content
    tagged,            \* what extract_tagged_blocks returned
    displayed,         \* what _extract_and_display_tags found, per label
    tag_done,          \* the extractors that have run
    \* ---- an agent object and the caller that streams its workflow ----
    verbose,           \* MLEngineerAgent.verbose
    current_plan,      \* MLEngineerAgent.current_plan
    plan_sent,         \* the caller's plan_sent flag
    stream_events,     \* the plan and thinking events the caller emitted
    runs               \* Runs started on the agent object

loopVars == <<mi_arg, entry, steps, max_iterations, iteration_count,
              messages, node, llm_calls, dispatched, tail, next_id>>

serverVars == <<persistent_namespace, execution_history, event_history,
                prompts, current_task, listeners, task_pc, active_tasks,
                thread_pc, exec_count, run_records, result, agent_done,
                poller_pc, processed, sub_pc, sub_session, sub_idx,
                sub_queue, sub_sent, last_reply, loop_running>>

replVars == <<caller, in_run, repl_pc, ran, pending, captured, stderr_capture, alarm,
              sig_handler, repl_calls, repl_total, escaped, discarded>>

\* the module-level state of python_executor with the values and the object
\* identities that the functions of its interface exchange
storeVars == <<namespace, objects, history_list, returned_list, api_op,
               api_arg, api_calls>>

tagVars == <<msg_content, tagged, displayed, tag_done>>

planVars == <<verbose, current_plan, plan_sent, stream_events, runs>>

libVars == <<storeVars, tagVars, planVars>>

vars == <<loopVars, serverVars, replVars, libVars>>

\* ------------------------------------------------------------------------
\* Message contents: a content is a sequence of tokens, so that the
\* case-insensitive substring test of the loop is computed, not assumed.
\* ------------------------------------------------------------------------
PlainContent == <<"text">>
\* a response with a stray close marker, a first block whose body is
\* surrounded by whitespace, and a second block in another letter case
SolutionContent ==
    <<"text", "</solution>", "<solution>", " ", "done", " ", "</solution>",
      "<SOLUTION>", "again", "</solution>">>
UpperSolutionContent == <<"<SOLUTION>", "done", "</SOLUTION>">>
SyntheticContent == <<"<solution>", "Maximum iterations reached. Please review the work done so far.", "</solution>">>

\* an open marker that is never closed
UnclosedSolutionContent == <<"<SOLUTION>", "unfinished">>

EngineContents == {PlainContent, SolutionContent, UpperSolutionContent}

\* str.lower() on one token
Lower(tok) ==
    CASE tok = "<SOLUTION>" -> "<solution>"
      [] tok = "</SOLUTION>" -> "</solution>"
      [] tok = "<PLAN>" -> "<plan>"
      [] tok = "</PLAN>" -> "</plan>"
      [] OTHER -> tok

\* "<solution>" in content.lower()
ContainsSolutionMarker(content) ==
    \E i \in DOMAIN content : Lower(content[i]) = "<solution>"

\* ------------------------------------------------------------------------
\* Tagged blocks: re.search(r'<label>(.*?)</label>', content,
\* re.DOTALL | re.IGNORECASE) and str.strip(), over token sequences
\* ------------------------------------------------------------------------
Labels == {"plan", "think", "solution"}

OpenMarker(label) ==
    CASE label = "plan" -> "<plan>"
      [] label = "think" -> "<think>"
      [] label = "solution" -> "<solution>"

CloseMarker(label) ==
    CASE label = "plan" -> "</plan>"
      [] label = "think" -> "</think>"
      [] label = "solution" -> "</solution>"

NoMatch == [found |-> FALSE, body |-> <<>>]

\* the position of the first close marker of the label after position p,
\* or 0: the lazy '(.*?)' stops at the first one
RECURSIVE FirstCloseAfter(_, _, _)
FirstCloseAfter(content, label, p) ==
    IF p >= Len(content) THEN 0
    ELSE IF Lower(content[p + 1]) = CloseMarker(label) THEN p + 1
    ELSE FirstCloseAfter(content, label, p + 1)

\* the search tries each start position from the left; the match is the
\* first open marker from which a close marker can be reached
RECURSIVE SearchBlock(_, _, _)
SearchBlock(content, label, p) ==
    IF p > Len(content) THEN NoMatch
    ELSE IF /\ Lower(content[p]) = OpenMarker(label)
            /\ FirstCloseAfter(content, label, p) # 0
         THEN [found |-> TRUE,
               body |-> SubSeq(content, p + 1, FirstCloseAfter(content, label, p) - 1)]
         ELSE SearchBlock(content, label, p + 1)

\* str.strip(): leading whitespace, then trailing whitespace
RECURSIVE LStrip(_)
LStrip(body) ==
    IF body # <<>> /\ Head(body) = " " THEN LStrip(Tail(body)) ELSE body

RECURSIVE RStrip(_)
RStrip(body) ==
    IF body # <<>> /\ body[Len(body)] = " "
    THEN RStrip(SubSeq(body, 1, Len(body) - 1)) ELSE body

Strip(body) == RStrip(LStrip(body))

\* MLEngineerAgent._extract_solution: the body of the match, stripped, or
\* the whole content when nothing matches
extract_solution(content) ==
    LET m == SearchBlock(content, "solution", 1)
    IN IF m.found THEN Strip(m.body) ELSE content

\* ------------------------------------------------------------------------
\* Messages
\* ------------------------------------------------------------------------
NoCalls == <<>>

SystemMessage == [type |-> "system", content |-> <<"system prompt">>,
                  tool_calls |-> NoCalls, tool_call_id |-> 0, name |-> "",
                  origin |-> "run"]
HumanMessage == [type |-> "human", content |-> <<"prompt">>,
                 tool_calls |-> NoCalls, tool_call_id |-> 0, name |-> "",
                 origin |-> "run"]
AIMessage(content, calls, origin) ==
    [type |-> "ai", content |-> content, tool_calls |-> calls,
     tool_call_id |-> 0, name |-> "", origin |-> origin]
ToolMessage(content, id, name) ==
    [type |-> "tool", content |-> content, tool_calls |-> NoCalls,
     tool_call_id |-> id, name |-> name, origin |-> "loop"]

\* names bound in tool_map (create_tool_list, non-Kaggle mode)
ToolMapNames == {"execute_python", "dataset_info"}

\* what the engine may ask for: a registered tool with valid arguments, a
\* registered tool whose invoke raises (argument validation), a name
\* that is not registered
CallKinds ==
    { [name |-> "execute_python", raises |-> FALSE],
      [name |-> "execute_python", raises |-> TRUE],
      [name |-> "no_such_tool", raises |-> FALSE] }

KindSeqs == UNION { [1..n -> CallKinds] : n \in 0..MaxCalls }

\* the ActionRequests of one response, ids issued from 'first' upward
MkCalls(kinds, first) ==
    [i \in 1..Len(kinds) |->
        [id |-> first + i - 1, name |-> kinds[i].name, raises |-> kinds[i].raises]]

TailKinds == {"tools", "none", "solution"}

TailContent(t) == IF t = "solution" THEN UnclosedSolutionContent ELSE PlainContent
TailCalls(t) == IF t = "tools"
                THEN <<[name |-> "execute_python", raises |-> FALSE]>>
                ELSE <<>>

\* ------------------------------------------------------------------------
\* MLEngineerAgent.__init__ : self.max_iterations = max_iterations or default
\* ------------------------------------------------------------------------
ResolveMaxIterations(m) == IF m = 0 THEN MAX_ITERATIONS ELSE m

\* ------------------------------------------------------------------------
\* MLEngineerAgent._should_continue
\* ------------------------------------------------------------------------
Last(s) == s[Len(s)]
Max2(a, b) == IF a >= b THEN a ELSE b

\* _should_continue without the test for a solution marker
should_continue_NoSolutionCheck(msgs, count, max) ==
    IF count >= max THEN "end"
    ELSE IF Last(msgs).type = "ai"
         THEN IF Last(msgs).tool_calls # <<>> THEN "continue" ELSE "end"
         ELSE "end"

\* messages[-6:]
LastSix(msgs) == SubSeq(msgs, Max2(1, Len(msgs) - 5), Len(msgs))

\* recent_tool_calls: the names of the tool calls of the last six messages
RECURSIVE RecentToolCalls(_)
RecentToolCalls(msgs) ==
    IF msgs = <<>> THEN <<>>
    ELSE [i \in 1..Len(Head(msgs).tool_calls) |-> Head(msgs).tool_calls[i].name]
         \o RecentToolCalls(Tail(msgs))

\* the test of the repetition heuristic
RepetitionDetected(msgs) ==
    /\ Len(msgs) >= 6
    /\ LET recent == RecentToolCalls(LastSix(msgs))
       IN /\ Len(recent) >= 4
          /\ Cardinality({ recent[i] : i \in DOMAIN recent }) <= 2

\* a heuristic that ends the loop when it detects a repetition
ToolCallsBranch_StopOnRepetition(msgs) ==
    IF RepetitionDetected(msgs) THEN "end" ELSE "continue"

\* the branch of _should_continue for a response with tool calls: when the
\* heuristic detects a repetition it prints a warning (verbose only); the
\* branch returns "continue" either way
ToolCallsBranch(msgs) ==
    IF RepetitionDetected(msgs) THEN "continue" ELSE "continue"

\* _should_continue that goes on to the Act step after a response without
\* tool calls
should_continue_ContinueWithoutCalls(msgs, count, max) ==
    IF count >= max THEN "end"
    ELSE IF Last(msgs).type = "ai"
         THEN IF ContainsSolutionMarker(Last(msgs).content) THEN "end"
              ELSE "continue"
         ELSE "end"

should_continue(msgs, count, max) ==
    IF count >= max THEN "end"
    ELSE IF Last(msgs).type = "ai"
         THEN IF ContainsSolutionMarker(Last(msgs).content) THEN "end"
              ELSE IF Last(msgs).tool_calls # <<>> THEN ToolCallsBranch(msgs)
              ELSE "end"
         ELSE "end"

\* ------------------------------------------------------------------------
\* MLEngineerAgent._execute_tools_node : the ToolMessages of one Act step
\* ------------------------------------------------------------------------
\* the requests that reach tool_map[tool_name].invoke
InvokedCalls(calls) == SelectSeq(calls, LAMBDA c : c.name \in ToolMapNames)

ToolResultFor(c) ==
    IF c.raises
    THEN ToolMessage(<<"Error executing", c.name>>, c.id, c.name)
    ELSE ToolMessage(<<"result", c.name>>, c.id, c.name)

RECURSIVE ToolMessagesFor(_)
ToolMessagesFor(calls) ==
    IF calls = <<>> THEN <<>>
    ELSE LET c == Head(calls)
         IN (IF c.name \in ToolMapNames THEN <<ToolResultFor(c)>> ELSE <<>>)
            \o ToolMessagesFor(Tail(calls))

IdsOf(calls) == [i \in 1..Len(calls) |-> calls[i].id]

\* ------------------------------------------------------------------------
\* Loop actions
\* ------------------------------------------------------------------------
Entries == {"run", "stream_run"}

\* the recursion limit of the invocation: run passes
\* max(100, max_iterations * 3), stream_run passes no config
RecursionLimit(e, max) ==
    IF e = "run" THEN Max2(100, max * 3) ELSE DEFAULT_RECURSION_LIMIT

\* the number of engine calls whose response is chosen freely before the
\* engine follows its script: under stream_run the script is followed from
\* the first call on
FreeCalls(e) == IF e = "run" THEN MaxFree ELSE 0

LoopInit ==
    \* any integer is accepted; a negative one is kept as it is
    /\ mi_arg \in (0..MaxIterArg) \cup {-1}
    /\ entry \in Entries
    /\ steps = 0
    /\ max_iterations = ResolveMaxIterations(mi_arg)
    /\ iteration_count = 0
    /\ messages = <<>>
    /\ node = "idle"
    /\ llm_calls = 0
    /\ dispatched = <<>>
    /\ tail \in TailKinds
    /\ next_id = 1

\* MLEngineerAgent.run up to app.invoke(initial_state)
RunStart ==
    /\ node = "idle"
    /\ iteration_count' = 0
    /\ messages' = <<SystemMessage, HumanMessage>>
    /\ node' = "generate"
    /\ steps' = 0
    /\ UNCHANGED <<serverVars, replVars, libVars>>
    /\ UNCHANGED <<mi_arg, entry, max_iterations, llm_calls, dispatched, tail,
                   next_id>>

\* _generate_node, budget branch: the synthetic terminal message
GenerateBudget ==
    /\ node = "generate"
    /\ steps < RecursionLimit(entry, max_iterations)
    /\ iteration_count >= max_iterations
    /\ messages' = Append(messages, AIMessage(SyntheticContent, NoCalls, "loop"))
    /\ node' = "should_continue"
    /\ steps' = steps + 1
    /\ UNCHANGED <<serverVars, replVars, libVars>>
    /\ UNCHANGED <<mi_arg, entry, max_iterations, iteration_count, llm_calls,
                   dispatched, tail, next_id>>

\* the responses the scripted engine may give to its next call
EngineResponses ==
    IF llm_calls < FreeCalls(entry)
    THEN { [content |-> c, kinds |-> k] : c \in EngineContents, k \in KindSeqs }
    ELSE { [content |-> TailContent(tail), kinds |-> TailCalls(tail)] }

\* _generate_node, engine branch: increment, invoke, append the response
GenerateInvoke ==
    /\ node = "generate"
    /\ steps < RecursionLimit(entry, max_iterations)
    /\ steps' = steps + 1
    /\ iteration_count < max_iterations
    /\ iteration_count' = iteration_count + 1
    /\ llm_calls' = llm_calls + 1
    /\ \E r \in EngineResponses :
          /\ messages' = Append(messages,
                                AIMessage(r.content, MkCalls(r.kinds, next_id), "llm"))
          /\ next_id' = next_id + Len(r.kinds)
    /\ node' = "should_continue"
    /\ UNCHANGED <<serverVars, replVars, libVars>>
    /\ UNCHANGED <<mi_arg, entry, max_iterations, dispatched, tail>>

\* _generate_node, llm_with_tools.invoke raises: nothing catches it
GenerateRaises ==
    /\ node = "generate"
    /\ steps < RecursionLimit(entry, max_iterations)
    /\ iteration_count < max_iterations
    /\ llm_calls < FreeCalls(entry)
    /\ iteration_count' = iteration_count + 1
    /\ llm_calls' = llm_calls + 1
    /\ node' = "failed"
    /\ UNCHANGED <<serverVars, replVars, libVars>>
    /\ UNCHANGED <<mi_arg, entry, steps, max_iterations, messages, dispatched,
                   tail, next_id>>

\* the conditional edge after "generate"
ShouldContinue ==
    /\ node = "should_continue"
    /\ node' = IF should_continue(messages, iteration_count, max_iterations) = "continue"
               THEN "execute_tools" ELSE "END"
    /\ UNCHANGED <<serverVars, replVars, libVars>>
    /\ UNCHANGED <<mi_arg, entry, steps, max_iterations, iteration_count,
                   messages, llm_calls, dispatched, tail, next_id>>

\* _execute_tools_node followed by the edge execute_tools -> generate
ExecuteTools ==
    /\ node = "execute_tools"
    /\ steps < RecursionLimit(entry, max_iterations)
    /\ steps' = steps + 1
    /\ LET calls == Last(messages).tool_calls
       IN /\ messages' = messages \o ToolMessagesFor(calls)
          /\ dispatched' = dispatched \o IdsOf(InvokedCalls(calls))
    /\ node' = "generate"
    /\ UNCHANGED <<serverVars, replVars, libVars>>
    /\ UNCHANGED <<mi_arg, entry, max_iterations, iteration_count, llm_calls,
                   tail, next_id>>

\* the workflow has executed recursion_limit supersteps and a node is still
\* to run: the invocation raises GraphRecursionError
GraphRecursion ==
    /\ node \in {"generate", "execute_tools"}
    /\ steps >= RecursionLimit(entry, max_iterations)
    /\ node' = "GraphRecursionError"
    /\ UNCHANGED <<serverVars, replVars, libVars>>
    /\ UNCHANGED <<mi_arg, entry, steps, max_iterations, iteration_count,
                   messages, llm_calls, dispatched, tail, next_id>>

\* run: solution = self._extract_solution(final_message.content if
\* isinstance(final_message, AIMessage) else "")
ReportedSolution ==
    extract_solution(IF Last(messages).type = "ai"
                     THEN Last(messages).content ELSE <<>>)

LoopNext ==
    \/ RunStart
    \/ GenerateBudget
    \/ GenerateInvoke
    \/ GenerateRaises
    \/ ShouldContinue
    \/ ExecuteTools
    \/ GraphRecursion

\* ========================================================================
\* Session layer (server.py) over the process-wide executor state
\* ========================================================================
Sessions == {"s1", "s2"}
Subscribers == {"w1", "w2"}
\* the subscriber that is followed where one subscriber is enough
BusSubscribers == {"w1"}
\* the prompts that clients submit, in this order, each to any session:
\* two, so that Runs can overlap (two sessions) or follow each other
Workload == <<"first prompt", "second prompt">>
\* the session the subscribers connect to
BusSession == "s1"

\* one ExecutionRecord: the code is identified by the Run that executed it
\* and its position in that Run; plots are the images in capture order
Record(s, run, seq, nplots, ok) ==
    [owner |-> s, run |-> run, seq |-> seq,
     plots |-> [j \in 1..nplots |-> j], success |-> ok]

\* the outcomes of one execution that the model distinguishes: the code
\* raised (no image), or it succeeded after MaxPlots 'show' calls
ExecutionKinds == { [nplots |-> 0, ok |-> FALSE], [nplots |-> MaxPlots, ok |-> TRUE] }

NoResult == [plan |-> "None", log_path |-> ""]

NoRecord == [owner |-> "", run |-> 0, seq |-> 0, plots |-> <<>>, success |-> FALSE]

\* create_event: the event id is unique within the session's log
Event(type, stage, step, rec, plot_index, image) ==
    [type |-> type, stage |-> stage, step |-> step, rec |-> rec,
     plot_index |-> plot_index, image |-> image]

StatusEvent(stage) == Event("status", stage, 0, NoRecord, 0, 0)
ErrorEvent == Event("error", "", 0, NoRecord, 0, 0)
PlanEvent == Event("plan", "", 0, NoRecord, 0, 0)
AssistantEvent == Event("assistant_message", "", 0, NoRecord, 0, 0)
MetadataEvent == Event("metadata", "", 0, NoRecord, 0, 0)
ArtifactsEvent == Event("artifacts", "", 0, NoRecord, 0, 0)

\* the code payload carries code, output, error and success of the record
CodeEvent(rec, step_index) ==
    Event("code", "", step_index, [rec EXCEPT !.plots = <<>>], 0, 0)
PlotEvent(rec, step_index, plot_idx) ==
    Event("plot", "", step_index, NoRecord, plot_idx, rec.plots[plot_idx])

\* stream_execution_events, inner loop body for history[processed]:
\* one code event, then one plot event per image, enumerate(..., start=1)
RecordEvents_StepFromZero(rec, done) ==
    <<CodeEvent(rec, done)>>
        \o [j \in 1..Len(rec.plots) |-> PlotEvent(rec, done, j)]

RecordEvents(rec, done) ==
    <<CodeEvent(rec, done + 1)>>
        \o [j \in 1..Len(rec.plots) |-> PlotEvent(rec, done + 1, j)]

\* stream_execution_events: while processed < len(history): ...
RECURSIVE DrainEvents(_, _)
DrainEvents(history, done) ==
    IF done >= Len(history) THEN <<>>
    ELSE RecordEvents(history[done + 1], done) \o DrainEvents(history, done + 1)

\* SessionState.broadcast of the events evs, in order: each is appended to
\* the log (with its event_id) and put on every listener's queue
Stamp(s, evs) ==
    [i \in 1..Len(evs) |->
        [id |-> Len(event_history[s]) + i] @@ evs[i]]

\* a broadcast over bounded queues that passes over a subscriber whose
\* queue still holds events
Broadcast_SkipBusy(s, evs) ==
    /\ event_history' = [event_history EXCEPT ![s] = @ \o Stamp(s, evs)]
    /\ sub_queue' = [w \in Subscribers |->
                        IF w \in listeners[s] /\ sub_queue[w] = <<>>
                        THEN sub_queue[w] \o Stamp(s, evs)
                        ELSE sub_queue[w]]

Broadcast(s, evs) ==
    /\ event_history' = [event_history EXCEPT ![s] = @ \o Stamp(s, evs)]
    /\ sub_queue' = [w \in Subscribers |->
                        IF w \in listeners[s]
                        THEN sub_queue[w] \o Stamp(s, evs)
                        ELSE sub_queue[w]]

TotalPrompts == Len(prompts["s1"]) + Len(prompts["s2"])
TotalExecs == exec_count["s1"] + exec_count["s2"]

ServerInit ==
    /\ persistent_namespace = {}
    /\ execution_history = <<>>
    /\ event_history = [s \in Sessions |-> <<>>]
    /\ prompts = [s \in Sessions |-> <<>>]
    /\ current_task = [s \in Sessions |-> "None"]
    /\ listeners = [s \in Sessions |-> {}]
    /\ task_pc = [s \in Sessions |-> "none"]
    /\ active_tasks = [s \in Sessions |-> 0]
    /\ thread_pc = [s \in Sessions |-> "none"]
    /\ exec_count = [s \in Sessions |-> 0]
    /\ run_records = [s \in Sessions |-> <<>>]
    /\ result = [s \in Sessions |-> NoResult]
    /\ agent_done = [s \in Sessions |-> "no"]
    /\ poller_pc = [s \in Sessions |-> "none"]
    /\ processed = [s \in Sessions |-> 0]
    /\ sub_pc = [w \in Subscribers |-> "closed"]
    /\ sub_session = [w \in Subscribers |-> "s1"]
    /\ sub_idx = [w \in Subscribers |-> 0]
    /\ sub_queue = [w \in Subscribers |-> <<>>]
    /\ sub_sent = [w \in Subscribers |-> <<>>]
    /\ last_reply = 0
    /\ loop_running = TRUE

subVars == <<sub_pc, sub_session, sub_idx, sub_sent>>
threadVars == <<thread_pc, exec_count, run_records, result>>
executorVars == <<persistent_namespace, execution_history>>

\* session.current_task and not session.current_task.done()
TaskActive(s) == current_task[s] = "Task" /\ task_pc[s] # "none"

\* sessions are interchangeable: the one that receives the first prompt of
\* the process is called "s1"
FirstUse(s) == s = "s1" \/ prompts["s1"] # <<>>

\* a chat handler that accepts every submit
ChatGuard_Always(s) == TRUE

\* chat: the submit is accepted
ChatGuard(s) == ~TaskActive(s)

\* POST /chat, accepted: the prompt is recorded and the task created
Chat(s) ==
    /\ loop_running
    /\ TotalPrompts < Len(Workload)
    /\ FirstUse(s)
    /\ ChatGuard(s)
    /\ prompts' = [prompts EXCEPT ![s] = Append(@, Workload[TotalPrompts + 1])]
    /\ current_task' = [current_task EXCEPT ![s] = "Task"]
    /\ task_pc' = [task_pc EXCEPT ![s] = "created"]
    /\ active_tasks' = [active_tasks EXCEPT ![s] = @ + 1]
    /\ last_reply' = 200
    /\ UNCHANGED <<loopVars, replVars, libVars, loop_running, executorVars, event_history, listeners,
                   threadVars, agent_done, poller_pc, processed, subVars,
                   sub_queue>>

\* POST /chat while a task is active: HTTPException 409
ChatRejected(s) ==
    /\ loop_running
    /\ ~ChatGuard(s)
    /\ last_reply' = 409
    /\ UNCHANGED <<loopVars, replVars, libVars, loop_running, executorVars, event_history, prompts,
                   current_task, listeners, task_pc, active_tasks,
                   threadVars, agent_done, poller_pc, processed, subVars,
                   sub_queue>>

\* a run that ends the other way round: the terminal status first
CompletionEvents_StatusFirst(res) ==
    <<StatusEvent("completed"), MetadataEvent, AssistantEvent>>

\* run_agent_for_session, the broadcasts after a normal result: plan (if
\* any), one assistant_message, metadata, artifacts (if any), status completed
CompletionEvents(res) ==
    (IF res.plan # "None" THEN <<PlanEvent>> ELSE <<>>)
    \o <<AssistantEvent, MetadataEvent>>
    \o (IF res.log_path # "" THEN <<ArtifactsEvent>> ELSE <<>>)
    \o <<StatusEvent("completed")>>

\* a failure reported with the events of a completion after it
FailureEvents_ThenCompletion ==
    <<ErrorEvent, StatusEvent("failed"), MetadataEvent, StatusEvent("completed")>>

\* run_agent_for_session, the broadcasts of either except branch
FailureEvents == <<ErrorEvent, StatusEvent("failed")>>

\* run_agent_for_session up to 'await agent_future': status starting, the
\* agent is built, status running, the worker thread and the poller start
TaskStart(s) ==
    /\ loop_running
    /\ task_pc[s] = "created"
    /\ Broadcast(s, <<StatusEvent("starting"), StatusEvent("running")>>)
    /\ task_pc' = [task_pc EXCEPT ![s] = "await_agent"]
    /\ thread_pc' = [thread_pc EXCEPT ![s] = "start"]
    /\ agent_done' = [agent_done EXCEPT ![s] = "no"]
    /\ poller_pc' = [poller_pc EXCEPT ![s] = "ready"]
    /\ processed' = [processed EXCEPT ![s] = 0]
    /\ run_records' = [run_records EXCEPT ![s] = <<>>]
    /\ result' = [result EXCEPT ![s] = NoResult]
    /\ UNCHANGED <<loopVars, replVars, libVars, loop_running, executorVars, prompts, current_task, listeners,
                   active_tasks, exec_count, subVars, last_reply>>

\* a construction failure reported after the Run was announced as running
ConstructionFailureEvents_AfterRunning ==
    <<StatusEvent("starting"), StatusEvent("running")>> \o FailureEvents

\* run_agent_for_session up to the return of the inner except branch:
\* status starting, then the error and status failed
ConstructionFailureEvents == <<StatusEvent("starting")>> \o FailureEvents

\* run_agent_for_session when MLEngineerAgent(...) raises: error, failed,
\* return; the outer finally clears current_task
TaskStartFails(s) ==
    /\ loop_running
    /\ task_pc[s] = "created"
    /\ Broadcast(s, ConstructionFailureEvents)
    /\ task_pc' = [task_pc EXCEPT ![s] = "none"]
    /\ current_task' = [current_task EXCEPT ![s] = "None"]
    /\ active_tasks' = [active_tasks EXCEPT ![s] = @ - 1]
    /\ UNCHANGED <<loopVars, replVars, libVars, loop_running, executorVars, prompts, listeners, threadVars,
                   agent_done, poller_pc, processed, subVars, last_reply>>

\* what agent.run returns to run_agent_for_session. The agent is built with
\* verbose=False, so _generate_node never calls _extract_and_display_tags
\* and current_plan keeps its initial None; the conversation log is always
\* written, so log_path names an existing file under RUNS_DIR
ResultOfRun == [plan |-> "None", log_path |-> "log"]

\* agent.run on the worker thread: clear_namespace, clear_history,
\* iteration_count = 0, inject_variables(dataset path variables)
ThreadBegin(s) ==
    /\ loop_running
    /\ thread_pc[s] = "start"
    /\ persistent_namespace' = {[owner |-> s, run |-> Len(prompts[s]), seq |-> 0]}
    /\ execution_history' = <<>>
    /\ thread_pc' = [thread_pc EXCEPT ![s] = "running"]
    /\ UNCHANGED <<loopVars, replVars, libVars, loop_running, event_history, prompts, current_task, listeners,
                   task_pc, active_tasks, exec_count, run_records, result,
                   agent_done, poller_pc,
                   processed, subVars, sub_queue, last_reply>>

\* one execute_python dispatch of the Run: run_python_repl executes against
\* the namespace and appends its record to the history
ThreadExecute(s) ==
    /\ loop_running
    /\ thread_pc[s] = "running"
    /\ TotalExecs < MaxExec
    /\ \E k \in ExecutionKinds :
          LET rec == Record(s, Len(prompts[s]), Len(run_records[s]) + 1, k.nplots, k.ok)
          IN /\ execution_history' = Append(execution_history, rec)
             /\ run_records' = [run_records EXCEPT ![s] = Append(@, rec)]
    /\ persistent_namespace' = persistent_namespace \cup
          {[owner |-> s, run |-> Len(prompts[s]), seq |-> Len(run_records[s]) + 1]}
    /\ exec_count' = [exec_count EXCEPT ![s] = @ + 1]
    /\ UNCHANGED <<loopVars, replVars, libVars, loop_running, event_history, prompts, current_task, listeners,
                   task_pc, active_tasks, thread_pc, result, agent_done,
                   poller_pc, processed, subVars, sub_queue, last_reply>>

\* agent.run returns its result dictionary, the thread ends and the event
\* loop completes agent_future with the result
ThreadReturn(s) ==
    /\ loop_running
    /\ thread_pc[s] = "running"
    /\ result' = [result EXCEPT ![s] = ResultOfRun]
    /\ thread_pc' = [thread_pc EXCEPT ![s] = "none"]
    /\ agent_done' = [agent_done EXCEPT ![s] = "ok"]
    /\ UNCHANGED <<loopVars, replVars, libVars, loop_running, executorVars, event_history, prompts,
                   current_task, listeners, task_pc, active_tasks,
                   exec_count, run_records, poller_pc, processed, subVars,
                   sub_queue, last_reply>>

\* agent.run raises (the reasoning engine failed), the thread ends and the
\* event loop completes agent_future with the exception
ThreadRaise(s) ==
    /\ loop_running
    /\ thread_pc[s] = "running"
    /\ thread_pc' = [thread_pc EXCEPT ![s] = "none"]
    /\ agent_done' = [agent_done EXCEPT ![s] = "exc"]
    /\ UNCHANGED <<loopVars, replVars, libVars, loop_running, executorVars, event_history, prompts,
                   current_task, listeners, task_pc, active_tasks,
                   exec_count, run_records, result, poller_pc, processed,
                   subVars, sub_queue, last_reply>>

\* stream_execution_events, one pass of 'while True' up to the sleep: the
\* history copy is drained from 'processed', then the exit test is made
PollerStep(s) ==
    /\ loop_running
    /\ poller_pc[s] = "ready"
    /\ LET history == execution_history
       IN /\ Broadcast(s, DrainEvents(history, processed[s]))
          /\ processed' = [processed EXCEPT ![s] =
                              IF @ < Len(history) THEN Len(history) ELSE @]
          /\ poller_pc' = [poller_pc EXCEPT ![s] =
                              IF agent_done[s] # "no" /\ processed'[s] >= Len(history)
                              THEN "done" ELSE "ready"]
    /\ UNCHANGED <<loopVars, replVars, libVars, loop_running, executorVars, prompts, current_task, listeners,
                   task_pc, active_tasks, threadVars, agent_done, subVars,
                   last_reply>>

\* run_agent_for_session after a normal result, once the poller has ended:
\* the completion events; the outer finally clears current_task
TaskComplete(s) ==
    /\ loop_running
    /\ task_pc[s] = "await_agent"
    /\ agent_done[s] = "ok"
    /\ poller_pc[s] = "done"
    /\ Broadcast(s, CompletionEvents(result[s]))
    /\ task_pc' = [task_pc EXCEPT ![s] = "none"]
    /\ current_task' = [current_task EXCEPT ![s] = "None"]
    /\ active_tasks' = [active_tasks EXCEPT ![s] = @ - 1]
    /\ agent_done' = [agent_done EXCEPT ![s] = "no"]
    /\ poller_pc' = [poller_pc EXCEPT ![s] = "none"]
    /\ processed' = [processed EXCEPT ![s] = 0]
    /\ UNCHANGED <<loopVars, replVars, libVars, loop_running, executorVars, prompts, listeners, threadVars,
                   subVars, last_reply>>

\* run_agent_for_session when 'await agent_future' raises: error, status
\* failed, stream_task.cancel(), await stream_task
TaskFail(s) ==
    /\ loop_running
    /\ task_pc[s] = "await_agent"
    /\ agent_done[s] = "exc"
    /\ Broadcast(s, FailureEvents)
    /\ poller_pc' = [poller_pc EXCEPT ![s] =
                        IF @ = "ready" THEN "cancel_requested" ELSE @]
    /\ task_pc' = [task_pc EXCEPT ![s] = "await_cancel"]
    /\ UNCHANGED <<loopVars, replVars, libVars, loop_running, executorVars, prompts, current_task, listeners,
                   active_tasks, threadVars, agent_done, processed, subVars,
                   last_reply>>

\* the poller, if still running, gets CancelledError at its sleep;
\* run_agent_for_session then returns: current_task = None
TaskFailEnd(s) ==
    /\ loop_running
    /\ task_pc[s] = "await_cancel"
    /\ poller_pc[s] \in {"done", "cancel_requested"}
    /\ task_pc' = [task_pc EXCEPT ![s] = "none"]
    /\ current_task' = [current_task EXCEPT ![s] = "None"]
    /\ active_tasks' = [active_tasks EXCEPT ![s] = @ - 1]
    /\ agent_done' = [agent_done EXCEPT ![s] = "no"]
    /\ poller_pc' = [poller_pc EXCEPT ![s] = "none"]
    /\ processed' = [processed EXCEPT ![s] = 0]
    /\ UNCHANGED <<loopVars, replVars, libVars, loop_running, executorVars, event_history, prompts, listeners,
                   threadVars, subVars, sub_queue, last_reply>>

\* session_events: accept, subscribe, then the replay loop takes its first
\* event from event_history (sub_idx is the index of the event being sent);
\* with an empty log the loop ends at once and the handler waits on its queue
SubConnect(w, s) ==
    /\ sub_pc[w] = "closed"
    /\ sub_session' = [sub_session EXCEPT ![w] = s]
    /\ listeners' = [listeners EXCEPT ![s] = @ \cup {w}]
    /\ IF event_history[s] # <<>>
       THEN /\ sub_pc' = [sub_pc EXCEPT ![w] = "replay"]
            /\ sub_idx' = [sub_idx EXCEPT ![w] = 1]
       ELSE /\ sub_pc' = [sub_pc EXCEPT ![w] = "live"]
            /\ sub_idx' = [sub_idx EXCEPT ![w] = 0]
    /\ UNCHANGED <<loopVars, replVars, libVars, loop_running, executorVars, event_history, prompts,
                   current_task, task_pc, active_tasks, threadVars,
                   agent_done, poller_pc, processed, sub_queue, sub_sent,
                   last_reply>>

\* session_events: 'for event in session.event_history: await send_json'.
\* The send suspends the handler; when it resumes the iterator reads the
\* live list: the next event if there is one, else the loop ends.
SubReplaySend(w) ==
    /\ sub_pc[w] = "replay"
    /\ sub_sent' = [sub_sent EXCEPT ![w] =
                       Append(@, event_history[sub_session[w]][sub_idx[w]])]
    /\ IF sub_idx[w] < Len(event_history[sub_session[w]])
       THEN /\ sub_idx' = [sub_idx EXCEPT ![w] = @ + 1]
            /\ sub_pc' = sub_pc
       ELSE /\ sub_idx' = [sub_idx EXCEPT ![w] = 0]
            /\ sub_pc' = [sub_pc EXCEPT ![w] = "live"]
    /\ UNCHANGED <<loopVars, replVars, libVars, loop_running, executorVars, event_history, prompts,
                   current_task, listeners, task_pc, active_tasks,
                   threadVars, agent_done, poller_pc, processed,
                   sub_session, sub_queue, last_reply>>

\* session_events: 'event = await queue.get(); await send_json(event)'
SubLiveSend(w) ==
    /\ sub_pc[w] = "live"
    /\ sub_queue[w] # <<>>
    /\ sub_sent' = [sub_sent EXCEPT ![w] = Append(@, Head(sub_queue[w]))]
    /\ sub_queue' = [sub_queue EXCEPT ![w] = Tail(@)]
    /\ UNCHANGED <<loopVars, replVars, libVars, loop_running, executorVars, event_history, prompts,
                   current_task, listeners, task_pc, active_tasks,
                   threadVars, agent_done, poller_pc, processed, sub_pc,
                   sub_session, sub_idx, last_reply>>

\* session_events: WebSocketDisconnect, finally session.unsubscribe(queue)
SubDisconnect(w) ==
    /\ sub_pc[w] \in {"replay", "live"}
    /\ sub_pc' = [sub_pc EXCEPT ![w] = "gone"]
    /\ listeners' = [listeners EXCEPT ![sub_session[w]] = @ \ {w}]
    /\ sub_idx' = [sub_idx EXCEPT ![w] = 0]
    /\ sub_queue' = [sub_queue EXCEPT ![w] = <<>>]
    /\ sub_sent' = [sub_sent EXCEPT ![w] = <<>>]
    /\ UNCHANGED <<loopVars, replVars, libVars, loop_running, executorVars, event_history, prompts,
                   current_task, task_pc, active_tasks, threadVars,
                   agent_done, poller_pc, processed, sub_session,
                   last_reply>>

\* the event loop stops while the server holds Run tasks (the server is
\* shut down, or SystemExit / KeyboardInterrupt left a task and unwinds
\* run_forever): closing the loop cancels every pending task.  A task not
\* yet started never runs; a task at 'await agent_future' gets
\* CancelledError, which 'except Exception' does not catch, and only its
\* finally clauses run; a task at 'await stream_task' suppresses it and
\* returns.  No branch broadcasts.  The worker threads are abandoned.
LoopShutdown ==
    /\ loop_running
    /\ loop_running' = FALSE
    /\ current_task' = [s \in Sessions |->
                           IF task_pc[s] = "created" THEN current_task[s] ELSE "None"]
    /\ task_pc' = [s \in Sessions |-> "none"]
    /\ active_tasks' = [s \in Sessions |-> 0]
    /\ agent_done' = [s \in Sessions |-> "no"]
    /\ poller_pc' = [s \in Sessions |-> "none"]
    /\ processed' = [s \in Sessions |-> 0]
    /\ thread_pc' = [s \in Sessions |-> "none"]
    /\ UNCHANGED <<loopVars, replVars, libVars, executorVars, event_history, prompts,
                   listeners, exec_count, run_records, result, subVars,
                   sub_queue, last_reply>>

SessionNext(s) ==
    \/ Chat(s)
    \/ ChatRejected(s)
    \/ TaskStart(s)
    \/ TaskStartFails(s)
    \/ ThreadBegin(s)
    \/ ThreadExecute(s)
    \/ ThreadReturn(s)
    \/ ThreadRaise(s)
    \/ PollerStep(s)
    \/ TaskComplete(s)
    \/ TaskFail(s)
    \/ TaskFailEnd(s)

SubscriberNext(w) ==
    \/ SubConnect(w, BusSession)
    \/ SubReplaySend(w)
    \/ SubLiveSend(w)
    \/ SubDisconnect(w)

\* sessions whose Runs may overlap, no subscriber connected
ServerNext ==
    \/ \E s \in Sessions : SessionNext(s)
    \/ LoopShutdown

\* one session and the subscribers of its event stream
BusNext ==
    \/ SessionNext(BusSession)
    \/ \E w \in BusSubscribers : SubscriberNext(w)

\* a session whose Runs fail when agent.run is entered (no reasoning engine
\* can be built), observed by every subscriber; a subscriber that takes no
\* further step has stopped consuming its queue
FanoutNext ==
    \/ Chat(BusSession)
    \/ ChatRejected(BusSession)
    \/ TaskStart(BusSession)
    \/ ThreadBegin(BusSession)
    \/ ThreadRaise(BusSession)
    \/ PollerStep(BusSession)
    \/ TaskFail(BusSession)
    \/ TaskFailEnd(BusSession)
    \/ \E w \in Subscribers : SubscriberNext(w)

\* the loop variables are not used by the session layer
LoopIdle ==
    /\ mi_arg = 1
    /\ entry = "run"
    /\ steps = 0
    /\ max_iterations = ResolveMaxIterations(1)
    /\ iteration_count = 0
    /\ messages = <<>>
    /\ node = "idle"
    /\ llm_calls = 0
    /\ dispatched = <<>>
    /\ tail = "none"
    /\ next_id = 1

\* ========================================================================
\* run_python_repl (python_executor.py), one call at a time, followed
\* statement by statement
\* ========================================================================
\* threading.current_thread() of the caller: agent.run called directly
\* (terminal_chat.py, example_run.py, tests) runs on the main thread; the
\* server runs it through asyncio.to_thread
Callers == {"main_thread", "to_thread"}

\* a run_python_repl that arms the alarm on every thread
SupportsSignalTimeout_AnyThread(c) == TRUE

\* _supports_signal_timeout
SupportsSignalTimeout(c) == c = "main_thread"

\* the statements that the model distinguishes: an assignment, a reference
\* to a name, plt.show(), raise ValueError, sys.exit(), a loop that never ends
Statements == {"bind_x", "bind_y", "use_x", "use_y", "show", "raise", "exit", "spin",
               "warn"}

Binds(op) == op \in {"bind_x", "bind_y"}
Uses(op) == op \in {"use_x", "use_y"}
VarOf(op) == IF op \in {"bind_x", "use_x"} THEN "x" ELSE "y"

\* the code strings passed to run_python_repl
Commands ==
    { <<"bind_x">>, <<"use_x">>, <<"bind_y", "raise">>, <<"bind_y", "spin">>,
      <<"use_y", "show">>, <<"show", "show", "raise">>, <<"exit">>, <<"warn">> }

\* what inject_variables binds at the start of a Run
DatasetNames == {"DATASET_PATH"}

\* an assignment whose binding is dropped when the statement ends
ExecBind_Dropped(ns, v) == ns

\* exec(command, _persistent_namespace): an assignment binds in place
ExecBind(ns, v) == ns \cup {v}

\* a clear_namespace that leaves the bindings in place
ClearNamespace_Keep(ns) == ns

\* _persistent_namespace.clear()
ClearNamespace(ns) == {}

\* the 'result' dictionary at the start of a call (ran is the model's view
\* of how far the command got, as a traceback would show it)
NewResult(cmd) ==
    [code |-> cmd, error |-> "", success |-> FALSE, plots |-> <<>>]

TimeoutMessage == "Execution timed out"

\* what a statement that warns writes to standard error
StderrText == "UserWarning"

\* if stderr_capture.getvalue(): result['error'] += stderr_capture.getvalue()
ErrorPlusStderr(err, text) ==
    IF text = "" THEN err
    ELSE IF err = "" THEN text
    ELSE CASE err = "NameError" -> "NameErrorUserWarning"
           [] err = "ValueError" -> "ValueErrorUserWarning"
           [] err = TimeoutMessage -> "Execution timed outUserWarning"

IdleResult == NewResult(<<>>)

ReplInit ==
    /\ caller \in Callers
    /\ in_run = FALSE
    /\ repl_pc = "idle"
    /\ ran = 0
    /\ pending = IdleResult
    /\ captured = <<>>
    /\ stderr_capture = ""
    /\ alarm = "off"
    /\ sig_handler = "default"
    /\ repl_calls = 0
    /\ repl_total = 0
    /\ escaped = "none"
    /\ discarded = {}

\* no call of run_python_repl is followed statement by statement
ReplIdle ==
    /\ caller = "to_thread"
    /\ in_run = FALSE
    /\ repl_pc = "idle"
    /\ ran = 0
    /\ pending = IdleResult
    /\ captured = <<>>
    /\ stderr_capture = ""
    /\ alarm = "off"
    /\ sig_handler = "default"
    /\ repl_calls = 0
    /\ repl_total = 0
    /\ escaped = "none"
    /\ discarded = {}

otherVars == <<loopVars, libVars, event_history, prompts, current_task, listeners,
               task_pc, active_tasks, thread_pc, exec_count, run_records,
               result, agent_done, poller_pc, processed, sub_pc, sub_session,
               sub_idx, sub_queue, sub_sent, last_reply, loop_running>>

\* agent.run: clear_namespace(), clear_history(), inject_variables(...)
RunBegin ==
    /\ repl_pc = "idle"
    /\ ~in_run
    /\ in_run' = TRUE
    /\ discarded' = persistent_namespace \ ClearNamespace(persistent_namespace)
    /\ persistent_namespace' = ClearNamespace(persistent_namespace) \cup DatasetNames
    /\ execution_history' = <<>>
    /\ repl_calls' = 0
    /\ UNCHANGED <<caller, repl_pc, ran, pending, captured, stderr_capture, alarm,
                   sig_handler, repl_total, escaped, otherVars>>

\* agent.run returns or raises
RunEnd ==
    /\ repl_pc = "idle"
    /\ in_run
    /\ in_run' = FALSE
    /\ UNCHANGED <<caller, repl_pc, ran, pending, captured, stderr_capture, alarm,
                   sig_handler, repl_calls, repl_total, escaped, discarded,
                   executorVars, otherVars>>

\* run_python_repl(command): the result dictionary, the captures, and on a
\* thread that supports it signal.signal(SIGALRM, timeout_handler) and
\* signal.alarm(timeout_seconds), inside the with block, before the inner try
ReplCall(cmd) ==
    /\ repl_pc = "idle"
    /\ repl_total < MaxRepl
    /\ pending' = NewResult(cmd)
    /\ ran' = 0
    /\ captured' = <<>>
    /\ stderr_capture' = ""
    /\ repl_calls' = repl_calls + 1
    /\ repl_total' = repl_total + 1
    /\ escaped' = "none"
    /\ IF SupportsSignalTimeout(caller)
       THEN /\ sig_handler' = "timeout_handler"
            /\ alarm' = "armed"
            /\ repl_pc' = "entering"
       ELSE /\ UNCHANGED <<sig_handler, alarm>>
            /\ repl_pc' = "exec"
    /\ UNCHANGED <<caller, in_run, discarded, executorVars, otherVars>>

\* the inner try is entered with the alarm armed
ReplEnterTry ==
    /\ repl_pc = "entering"
    /\ repl_pc' = "exec"
    /\ UNCHANGED <<caller, in_run, ran, pending, captured, stderr_capture, alarm,
                   sig_handler, repl_calls, repl_total, escaped, discarded,
                   executorVars, otherVars>>

\* exec(command, _persistent_namespace) runs its next statement.  An
\* Exception goes to 'except Exception' (type name in the error field);
\* SystemExit is not an Exception and unwinds through the finally clause
ReplStatement ==
    /\ repl_pc = "exec"
    /\ ran < Len(pending.code)
    /\ LET op == pending.code[ran + 1]
       IN /\ op # "spin"
          /\ persistent_namespace' =
                IF Binds(op) THEN ExecBind(persistent_namespace, VarOf(op))
                ELSE persistent_namespace
          /\ captured' = IF op = "show" THEN Append(captured, Len(captured) + 1)
                         ELSE captured
          /\ stderr_capture' = IF op = "warn" THEN StderrText ELSE stderr_capture
          /\ IF Uses(op) /\ VarOf(op) \notin persistent_namespace
             THEN /\ pending' = [pending EXCEPT !.error = "NameError"]
                  /\ repl_pc' = "handled"
                  /\ ran' = ran
             ELSE IF op = "raise"
             THEN /\ pending' = [pending EXCEPT !.error = "ValueError"]
                  /\ repl_pc' = "handled"
                  /\ ran' = ran
             ELSE IF op = "exit"
             THEN /\ repl_pc' = "unwinding"
                  /\ UNCHANGED <<pending, ran>>
             ELSE /\ ran' = ran + 1
                  /\ UNCHANGED <<pending, repl_pc>>
    /\ UNCHANGED <<caller, in_run, alarm, sig_handler, repl_calls, repl_total,
                   escaped, discarded, execution_history, otherVars>>

\* exec returned: result['success'] = True, still inside the try
ReplSucceed ==
    /\ repl_pc = "exec"
    /\ ran = Len(pending.code)
    /\ pending' = [pending EXCEPT !.success = TRUE]
    /\ repl_pc' = "succeeded"
    /\ UNCHANGED <<caller, in_run, ran, captured, stderr_capture, alarm, sig_handler, repl_calls,
                   repl_total, escaped, discarded, executorVars, otherVars>>

\* the inner finally: signal.alarm(0); then, after the with block, the
\* captured output and plots are stored in the result and what the code
\* wrote to standard error is added to the error field
ReplFinally ==
    /\ repl_pc \in {"succeeded", "handled"}
    /\ alarm' = "off"
    /\ pending' = [pending EXCEPT !.plots = captured,
                                  !.error = ErrorPlusStderr(@, stderr_capture)]
    /\ repl_pc' = "append"
    /\ UNCHANGED <<caller, in_run, ran, captured, stderr_capture, sig_handler, repl_calls,
                   repl_total, escaped, discarded, executorVars, otherVars>>

\* SIGALRM is delivered while the alarm is armed: timeout_handler raises
\* TimeoutError at the bytecode the main thread is executing.  Inside the
\* try body it is caught by the inner 'except TimeoutError' (the finally
\* follows); before the try, in an except handler or in the finally clause
\* it leaves the with block and is caught by the outer 'except TimeoutError'
ReplAlarm ==
    /\ alarm = "armed"
    /\ repl_pc \in {"entering", "exec", "succeeded", "handled", "unwinding"}
    /\ alarm' = "off"
    /\ pending' = [pending EXCEPT !.error = TimeoutMessage]
    /\ repl_pc' = IF repl_pc \in {"exec", "succeeded"} THEN "handled" ELSE "append"
    /\ UNCHANGED <<caller, in_run, ran, captured, stderr_capture, sig_handler, repl_calls,
                   repl_total, escaped, discarded, executorVars, otherVars>>

\* SystemExit leaves the inner finally (signal.alarm(0)), the with block and
\* both outer except clauses: the call raises and appends no record
ReplUnwind ==
    /\ repl_pc = "unwinding"
    /\ alarm' = "off"
    /\ escaped' = "SystemExit"
    /\ repl_pc' = "idle"
    /\ UNCHANGED <<caller, in_run, ran, pending, captured, stderr_capture, sig_handler, repl_calls,
                   repl_total, discarded, executorVars, otherVars>>

\* _execution_history.append(result); return result
ReplAppend ==
    /\ repl_pc = "append"
    /\ execution_history' = Append(execution_history, pending @@ [ran |-> ran])
    /\ repl_pc' = "idle"
    /\ UNCHANGED <<caller, in_run, ran, pending, captured, stderr_capture, alarm, sig_handler,
                   repl_calls, repl_total, escaped, discarded, persistent_namespace,
                   otherVars>>

ReplNext ==
    \/ RunBegin
    \/ RunEnd
    \/ \E cmd \in Commands : ReplCall(cmd)
    \/ ReplEnterTry
    \/ ReplStatement
    \/ ReplSucceed
    \/ ReplFinally
    \/ ReplAlarm
    \/ ReplUnwind
    \/ ReplAppend

\* ========================================================================
\* The interface of python_executor (inject_variables, clear_history,
\* get_execution_history) with the values of the namespace and the
\* identities of the result dictionaries
\* ========================================================================
NoDict == <<>>

\* the dictionaries given to inject_variables
InjectArgs ==
    { NoDict,
      "DATASET_PATH" :> "a.csv",
      "DATASET_PATH" :> "b.csv",
      ("DATASET_PATH" :> "b.csv") @@ ("x" :> "injected") }

\* the names that executed code assigns
AssignedNames == {"x", "y"}

\* an update that replaces the namespace by its argument
inject_variables_Replace(d, v) == v

\* inject_variables: _persistent_namespace.update(variables)
inject_variables(d, v) ==
    [k \in DOMAIN d \cup DOMAIN v |-> IF k \in DOMAIN v THEN v[k] ELSE d[k]]

\* exec of 'name = value' in the namespace
ExecAssign(d, name, value) ==
    [k \in DOMAIN d \cup {name} |-> IF k = name THEN value ELSE d[k]]

\* list.copy(): a new list that holds the same objects
ListCopy(l) == [i \in 1..Len(l) |-> l[i]]

\* the dictionaries a list refers to, as they are now
RecordsOf(l) == [i \in 1..Len(l) |-> objects[l[i]]]

\* python_executor has just been imported
StoreIdle ==
    /\ namespace = NoDict
    /\ objects = <<>>
    /\ history_list = <<>>
    /\ returned_list = <<>>
    /\ api_op = "none"
    /\ api_arg = NoDict
    /\ api_calls = 0

nonStoreVars == <<loopVars, serverVars, replVars, tagVars, planVars>>

\* run_python_repl('name = ...'): the assignment binds in the namespace, a
\* new result dictionary is appended to _execution_history
ApiRun(name) ==
    /\ api_calls < MaxApi
    /\ api_calls' = api_calls + 1
    /\ api_op' = "run_python_repl"
    /\ namespace' = ExecAssign(namespace, name, "assigned")
    /\ objects' = Append(objects, [code |-> name, error |-> "", success |-> TRUE])
    /\ history_list' = Append(history_list, Len(objects) + 1)
    /\ UNCHANGED <<returned_list, api_arg, nonStoreVars>>

ApiInject(v) ==
    /\ api_calls < MaxApi
    /\ api_calls' = api_calls + 1
    /\ api_op' = "inject_variables"
    /\ api_arg' = v
    /\ namespace' = inject_variables(namespace, v)
    /\ UNCHANGED <<objects, history_list, returned_list, nonStoreVars>>

\* clear_history: _execution_history.clear()
ApiClearHistory ==
    /\ api_calls < MaxApi
    /\ api_calls' = api_calls + 1
    /\ api_op' = "clear_history"
    /\ history_list' = <<>>
    /\ UNCHANGED <<namespace, objects, returned_list, api_arg, nonStoreVars>>

\* get_execution_history: return _execution_history.copy()
ApiGetHistory ==
    /\ api_calls < MaxApi
    /\ api_calls' = api_calls + 1
    /\ api_op' = "get_execution_history"
    /\ returned_list' = ListCopy(history_list)
    /\ UNCHANGED <<namespace, objects, history_list, api_arg, nonStoreVars>>

\* the caller changes the list it was given: del returned[0]
CallerEditsList ==
    /\ api_calls < MaxApi
    /\ returned_list # <<>>
    /\ api_calls' = api_calls + 1
    /\ api_op' = "caller_edits_list"
    /\ returned_list' = Tail(returned_list)
    /\ UNCHANGED <<namespace, objects, history_list, api_arg, nonStoreVars>>

\* the caller changes a dictionary it reached through the list it was
\* given: returned[i]['error'] = ..., returned[i]['success'] = False
CallerEditsRecord ==
    /\ api_calls < MaxApi
    /\ api_calls' = api_calls + 1
    /\ api_op' = "caller_edits_record"
    /\ \E i \in DOMAIN returned_list :
          objects' = [objects EXCEPT ![returned_list[i]] =
                         [@ EXCEPT !.error = "edited", !.success = FALSE]]
    /\ UNCHANGED <<namespace, history_list, returned_list, api_arg, nonStoreVars>>

StoreNext ==
    \/ \E name \in AssignedNames : ApiRun(name)
    \/ \E v \in InjectArgs : ApiInject(v)
    \/ ApiClearHistory
    \/ ApiGetHistory
    \/ CallerEditsList
    \/ CallerEditsRecord

\* ========================================================================
\* The tag extractors: tag_parser.extract_tagged_blocks and
\* MLEngineerAgent._extract_and_display_tags, on one message content
\* ========================================================================
TagTokens ==
    { "<plan>", "</plan>", "<PLAN>", "</PLAN>", "<think>", "</think>",
      "<solution>", "</solution>", "A", " " }

ExampleContent == <<"<plan>", "A", "</plan>", "<think>", "B", "</think>">>

Contents ==
    UNION { [1..n -> TagTokens] : n \in 0..MaxTokens } \cup {ExampleContent}

\* group 'tag' of '<(?P<tag>[a-zA-Z0-9_]+)>' on an open marker, as written
OpenTag(tok) ==
    CASE tok = "<plan>" -> "plan"
      [] tok = "<PLAN>" -> "PLAN"
      [] tok = "<think>" -> "think"
      [] tok = "<solution>" -> "solution"
      [] tok = "<SOLUTION>" -> "SOLUTION"
      [] OTHER -> ""

\* the tag of a close marker '</\s*tag\s*>', as written
CloseTag(tok) ==
    CASE tok = "</plan>" -> "plan"
      [] tok = "</PLAN>" -> "PLAN"
      [] tok = "</think>" -> "think"
      [] tok = "</solution>" -> "solution"
      [] tok = "</SOLUTION>" -> "SOLUTION"
      [] OTHER -> ""

\* str.lower() on a tag
LowerTag(t) ==
    CASE t = "PLAN" -> "plan"
      [] t = "SOLUTION" -> "solution"
      [] OTHER -> t

\* the first close marker after position p that the back-reference (?P=tag)
\* accepts: the same characters as the open marker's tag; 0 if there is none
RECURSIVE FirstCloseOfTag(_, _, _)
FirstCloseOfTag(content, t, p) ==
    IF p >= Len(content) THEN 0
    ELSE IF CloseTag(content[p + 1]) = t THEN p + 1
    ELSE FirstCloseOfTag(content, t, p + 1)

\* _TAG_PATTERN.finditer(content): matches from the left, the next search
\* starting behind the previous match
RECURSIVE ScanTaggedBlocks(_, _)
ScanTaggedBlocks(content, p) ==
    IF p > Len(content) THEN <<>>
    ELSE IF /\ OpenTag(content[p]) # ""
            /\ FirstCloseOfTag(content, OpenTag(content[p]), p) # 0
         THEN LET q == FirstCloseOfTag(content, OpenTag(content[p]), p)
              IN <<[tag |-> LowerTag(OpenTag(content[p])),
                    body |-> Strip(SubSeq(content, p + 1, q - 1))]>>
                 \o ScanTaggedBlocks(content, q + 1)
         ELSE ScanTaggedBlocks(content, p + 1)

\* an extractor that reports every open marker, closed or not
extract_tagged_blocks_EveryOpen(content) ==
    LET opens == SelectSeq(content, LAMBDA tok : OpenTag(tok) # "")
    IN [k \in 1..Len(opens) |-> [tag |-> LowerTag(OpenTag(opens[k])), body |-> <<>>]]

extract_tagged_blocks(content) ==
    IF content = <<>> THEN <<>> ELSE ScanTaggedBlocks(content, 1)

\* _extract_and_display_tags: one search per label
extract_and_display_tags(content) ==
    [L \in Labels |->
        LET m == SearchBlock(content, L, 1)
        IN [found |-> m.found, body |-> Strip(m.body)]]

NothingDisplayed == [L \in Labels |-> NoMatch]

TagIdle ==
    /\ msg_content = <<>>
    /\ tagged = <<>>
    /\ displayed = NothingDisplayed
    /\ tag_done = {}

TagInit ==
    /\ msg_content \in Contents
    /\ tagged = <<>>
    /\ displayed = NothingDisplayed
    /\ tag_done = {}

nonTagVars == <<loopVars, serverVars, replVars, storeVars, planVars>>

ExtractTaggedBlocks ==
    /\ "tagged" \notin tag_done
    /\ tagged' = extract_tagged_blocks(msg_content)
    /\ tag_done' = tag_done \cup {"tagged"}
    /\ UNCHANGED <<msg_content, displayed, nonTagVars>>

ExtractAndDisplayTags ==
    /\ "displayed" \notin tag_done
    /\ displayed' = extract_and_display_tags(msg_content)
    /\ tag_done' = tag_done \cup {"displayed"}
    /\ UNCHANGED <<msg_content, tagged, nonTagVars>>

TagNext ==
    \/ ExtractTaggedBlocks
    \/ ExtractAndDisplayTags

\* ========================================================================
\* Agent objects driven by the callers of the workflow: MLEngineerAgent.run
\* on an agent that may have served a Run before, the websocket server's
\* process_agent_output (one agent per connection, one turn per chat
\* message) and the HTTP server's stream_analysis (one agent per request).
\* The loop variables are the agent's; what a caller observes of the
\* "generate" events is kept in stream_events.
\* ========================================================================
TurnEntries == {"run", "process_agent_output", "stream_analysis"}

\* self.current_plan: None, or a text
NoPlan == [set |-> FALSE, text |-> <<>>]
PlanText(body) == [set |-> TRUE, text |-> body]

\* assistant contents with plan and think blocks
PlanThinkContent ==
    <<"<plan>", " ", "plan A", " ", "</plan>", "<think>", "t1", "</think>">>
TwoPlansContent ==
    <<"<PLAN>", "plan B", "</plan>", "<plan>", "plan C", "</plan>">>
ThinkContent == <<"<think>", "t2", "</think>">>
ChecklistThinkContent == <<"<think>", "- [ ] step", "</think>">>
UnclosedPlanContent == <<"<plan>", "plan D">>

PlanContents == {PlainContent, PlanThinkContent, TwoPlansContent, ThinkContent,
                 ChecklistThinkContent, UnclosedPlanContent}

\* '- [' in thinking and ('[ ]' in thinking or '[X]' in thinking or ...)
HasChecklist(body) == \E i \in DOMAIN body : body[i] = "- [ ] step"

\* _extract_and_display_tags: what self.current_plan is after the call
PlanAfterDisplay(content, cur) ==
    LET p == SearchBlock(content, "plan", 1)
        t == SearchBlock(content, "think", 1)
        afterPlan == IF p.found THEN PlanText(Strip(p.body)) ELSE cur
    IN IF t.found /\ HasChecklist(Strip(t.body))
       THEN PlanText(Strip(t.body)) ELSE afterPlan

\* _generate_node: the extraction runs only 'if self.verbose and
\* hasattr(response, "content") and response.content'
PlanAfterGenerate(v, content, cur) ==
    IF v /\ content # <<>> THEN PlanAfterDisplay(content, cur) ELSE cur

PlanBlockEvent(body) == [type |-> "plan", content |-> body]
ThinkingEvent(body) == [type |-> "thinking", content |-> body]

GenerateEvents_PlanEveryTime(content, sent) ==
    LET p == SearchBlock(content, "plan", 1)
        t == SearchBlock(content, "think", 1)
    IN (IF p.found THEN <<PlanBlockEvent(Strip(p.body))>> ELSE <<>>)
       \o (IF t.found THEN <<ThinkingEvent(Strip(t.body))>> ELSE <<>>)

\* the caller's handling of one "generate" event: a plan event for the
\* first match while plan_sent is false, a thinking event for a match
GenerateEvents(content, sent) ==
    IF content = <<>> THEN <<>>
    ELSE LET p == SearchBlock(content, "plan", 1)
             t == SearchBlock(content, "think", 1)
         IN (IF ~sent /\ p.found THEN <<PlanBlockEvent(Strip(p.body))>> ELSE <<>>)
            \o (IF t.found THEN <<ThinkingEvent(Strip(t.body))>> ELSE <<>>)

PlanSentAfter(content, sent) ==
    sent \/ (content # <<>> /\ SearchBlock(content, "plan", 1).found)

\* max_iterations as the callers pass it to the constructor
ConstructorBudgets(e) ==
    CASE e = "run" -> 1..MaxIterArg
      [] e = "process_agent_output" -> {WS_MAX_ITERATIONS}
      [] e = "stream_analysis" -> {API_MAX_ITERATIONS}

PlanIdle ==
    /\ verbose = FALSE
    /\ current_plan = NoPlan
    /\ plan_sent = FALSE
    /\ stream_events = <<>>
    /\ runs = 0

TurnLoopInit ==
    /\ entry \in TurnEntries
    /\ mi_arg \in ConstructorBudgets(entry)
    \* both servers construct the agent with verbose=False
    /\ verbose \in (IF entry = "run" THEN BOOLEAN ELSE {FALSE})
    /\ steps = 0
    /\ max_iterations = ResolveMaxIterations(mi_arg)
    /\ iteration_count = 0
    /\ messages = <<>>
    /\ node = "idle"
    /\ llm_calls = 0
    /\ dispatched = <<>>
    /\ tail \in TailKinds
    /\ next_id = 1
    /\ current_plan = NoPlan
    /\ plan_sent = FALSE
    /\ stream_events = <<>>
    /\ runs = 0

\* MLEngineerAgent.run up to app.invoke, on a new agent or on one that has
\* completed a Run: the history and iteration_count are reset,
\* current_plan is not
AgentRun ==
    /\ entry = "run"
    /\ node \in {"idle", "END"}
    /\ runs < MaxRuns
    /\ runs' = runs + 1
    /\ iteration_count' = 0
    /\ messages' = <<SystemMessage, HumanMessage>>
    /\ node' = "generate"
    /\ steps' = 0
    /\ UNCHANGED <<serverVars, replVars, storeVars, tagVars>>
    /\ UNCHANGED <<mi_arg, entry, max_iterations, llm_calls, dispatched, tail,
                   next_id, verbose, current_plan, plan_sent, stream_events>>

\* AgentStreamer.process_agent_output up to agent.app.stream(initial_state),
\* for the first chat message of the connection or a later one: its own
\* counters are initialised and the executor is cleared; the agent is the
\* session's and its iteration_count is not assigned
ProcessAgentOutput ==
    /\ entry = "process_agent_output"
    /\ node \in {"idle", "END"}
    /\ runs < MaxRuns
    /\ runs' = runs + 1
    /\ plan_sent' = FALSE
    /\ stream_events' = <<>>
    /\ messages' = <<SystemMessage, HumanMessage>>
    /\ node' = "generate"
    /\ steps' = 0
    /\ UNCHANGED <<serverVars, replVars, storeVars, tagVars>>
    /\ UNCHANGED <<mi_arg, entry, max_iterations, iteration_count, llm_calls,
                   dispatched, tail, next_id, verbose, current_plan>>

\* stream_analysis up to agent.app.stream(initial_state): the agent is
\* constructed by the request
StreamAnalysis ==
    /\ entry = "stream_analysis"
    /\ node = "idle"
    /\ runs' = runs + 1
    /\ plan_sent' = FALSE
    /\ stream_events' = <<>>
    /\ messages' = <<SystemMessage, HumanMessage>>
    /\ node' = "generate"
    /\ steps' = 0
    /\ UNCHANGED <<serverVars, replVars, storeVars, tagVars>>
    /\ UNCHANGED <<mi_arg, entry, max_iterations, iteration_count, llm_calls,
                   dispatched, tail, next_id, verbose, current_plan>>

\* the responses of the engine: chosen among the plan-bearing contents for
\* the first calls, scripted afterwards
ObservedResponses ==
    IF llm_calls < MaxFree
    THEN { [content |-> c, kinds |-> TailCalls(tail)] : c \in PlanContents }
    ELSE { [content |-> TailContent(tail), kinds |-> TailCalls(tail)] }

\* _generate_node, engine branch, and the handling of its "generate" event
\* by the caller that streams the workflow
GenerateObserved ==
    /\ node = "generate"
    /\ steps < RecursionLimit(entry, max_iterations)
    /\ steps' = steps + 1
    /\ iteration_count < max_iterations
    /\ iteration_count' = iteration_count + 1
    /\ llm_calls' = llm_calls + 1
    /\ \E r \in ObservedResponses :
          /\ messages' = Append(messages,
                                AIMessage(r.content, MkCalls(r.kinds, next_id), "llm"))
          /\ next_id' = next_id + Len(r.kinds)
          /\ current_plan' = PlanAfterGenerate(verbose, r.content, current_plan)
          /\ IF entry = "run"
             THEN UNCHANGED <<plan_sent, stream_events>>
             ELSE /\ stream_events' = stream_events \o GenerateEvents(r.content, plan_sent)
                  /\ plan_sent' = PlanSentAfter(r.content, plan_sent)
    /\ node' = "should_continue"
    /\ UNCHANGED <<serverVars, replVars, storeVars, tagVars>>
    /\ UNCHANGED <<mi_arg, entry, max_iterations, dispatched, tail, verbose, runs>>

\* the synthetic message of the budget branch holds no plan or think block
\* and the tool step yields no plan or thinking event, so the loop's own
\* actions stand for those steps
TurnsNext ==
    \/ AgentRun
    \/ ProcessAgentOutput
    \/ StreamAnalysis
    \/ GenerateObserved
    \/ GenerateBudget
    \/ ShouldContinue
    \/ ExecuteTools
    \/ GraphRecursion

\* an agent and the caller that drives it
TurnsInit == TurnLoopInit /\ ServerInit /\ ReplIdle /\ StoreIdle /\ TagIdle

SpecTurns == TurnsInit /\ [][TurnsNext]_vars

\* an agent under construction in a process whose server is idle
AgentInit == LoopInit /\ ServerInit /\ ReplIdle /\ StoreIdle /\ TagIdle /\ PlanIdle

\* a started server; the agents it builds are not followed step by step
AppInit == ServerInit /\ LoopIdle /\ ReplIdle /\ StoreIdle /\ TagIdle /\ PlanIdle

\* a process that only uses the executor
ExecutorInit == ReplInit /\ ServerInit /\ LoopIdle /\ StoreIdle /\ TagIdle /\ PlanIdle

SpecLoop == AgentInit /\ [][LoopNext]_vars

SpecServer == AppInit /\ [][ServerNext]_vars

SpecBus == AppInit /\ [][BusNext]_vars

SpecFanout == AppInit /\ [][FanoutNext]_vars

SpecRepl == ExecutorInit /\ [][ReplNext]_vars

\* a process that uses the interface of python_executor
StoreInit == StoreIdle /\ TagIdle /\ ServerInit /\ LoopIdle /\ ReplIdle /\ PlanIdle

SpecStore == StoreInit /\ [][StoreNext]_vars

\* one message content given to the extractors
ParserInit == TagInit /\ StoreIdle /\ ServerInit /\ LoopIdle /\ ReplIdle /\ PlanIdle

SpecTags == ParserInit /\ [][TagNext]_vars

\* ========================================================================
\* Claims about the orchestration loop (checked under SpecLoop)
\* ========================================================================

\* every reasoning-engine response of the run so far carries at least one
\* ActionRequest and no solution marker
AllResponsesRequestActions ==
    \A i \in DOMAIN messages :
        (messages[i].type = "ai" /\ messages[i].origin = "llm")
            => /\ messages[i].tool_calls # <<>>
               /\ ~ContainsSolutionMarker(messages[i].content)

\* C1: with max_iterations = N >= 1 and an engine that always returns
\* ActionRequests and never a solution marker, the run ends after exactly N
\* engine calls and its last message is the loop's synthetic
\* "<solution>Maximum iterations reached...</solution>" message.
C1_BudgetRunEndsWithSyntheticSolution ==
    (node = "END" /\ mi_arg >= 1 /\ AllResponsesRequestActions)
        => /\ llm_calls = mi_arg
           /\ Last(messages) = AIMessage(SyntheticContent, NoCalls, "loop")

\* C2: for every max_iterations argument m >= 0, iteration_count <= m and
\* the engine has been invoked at most m times, in every state of a run.
C2_IterationsWithinBudget ==
    mi_arg >= 0 => (iteration_count <= mi_arg /\ llm_calls <= mi_arg)

C3_Witness ==
    /\ node = "execute_tools"
    /\ iteration_count = 2
    /\ iteration_count < max_iterations
    /\ Len(Last(messages).tool_calls) = MaxCalls

\* C4: when a run is Terminated, every ActionRequest of every assistant
\* message was dispatched exactly once and is followed by exactly one
\* ToolResult with its id.
C4_EveryRequestAnsweredOnce ==
    node = "END" =>
        \A i \in DOMAIN messages :
            \A k \in DOMAIN messages[i].tool_calls :
                LET id == messages[i].tool_calls[k].id
                IN /\ Cardinality({ j \in DOMAIN messages :
                                      /\ j > i
                                      /\ messages[j].type = "tool"
                                      /\ messages[j].tool_call_id = id }) = 1
                   /\ Cardinality({ d \in DOMAIN dispatched : dispatched[d] = id }) = 1

\* C5: one Act step over a message with k ActionRequests appends exactly k
\* ToolResults, in request order, each with its request's id; a request
\* whose tool raises or whose name is not registered yields a ToolResult
\* stating the error.
C5_ActAppendsOneResultPerRequest ==
    [][ node = "execute_tools" =>
          LET calls == Last(messages).tool_calls
              k == Len(calls)
              base == Len(messages)
          IN /\ Len(messages') = base + k
             /\ \A i \in 1..k :
                   /\ messages'[base + i].type = "tool"
                   /\ messages'[base + i].tool_call_id = calls[i].id
                   /\ (calls[i].raises \/ calls[i].name \notin ToolMapNames)
                         => messages'[base + i].content[1] = "Error executing" ]_loopVars
\* ========================================================================
\* Claims about the session layer (checked under SpecServer or SpecBus)
\* ========================================================================
Max(S) == CHOOSE x \in S : \A y \in S : y <= x

IsPrefix(a, b) == Len(a) <= Len(b) /\ \A i \in 1..Len(a) : a[i] = b[i]

IsStatus(e, stage) == e.type = "status" /\ e.stage = stage

\* index of the latest "status starting" event of a log (0 if none)
LastStart(log) == Max({0} \cup { i \in DOMAIN log : IsStatus(log[i], "starting") })

\* the events of the latest Run of a session
RunSegment(s) ==
    LET log == event_history[s]
    IN SubSeq(log, LastStart(log) + 1, Len(log))

CompletionTypes == {"plan", "assistant_message", "metadata", "artifacts"}
IsCompletionEvent(e) == e.type \in CompletionTypes \/ IsStatus(e, "completed")

\* the records carried by the code events of a sequence of events, in order
CodeRecords(evs) ==
    LET codes == SelectSeq(evs, LAMBDA e : e.type = "code")
    IN [i \in 1..Len(codes) |-> codes[i].rec]

\* a record as a code payload shows it (code, output, error, success)
Shown(rec) == [rec EXCEPT !.plots = <<>>]

\* C6: per session at most one Run task is active at any time; while a task
\* is active no submit is accepted (the prompts do not change, no task is
\* created), and a submit answered 409 changes nothing in any session.
C6_AtMostOneRunPerSession ==
    /\ [](\A s \in Sessions : active_tasks[s] <= 1)
    /\ [][ /\ \A s \in Sessions :
                TaskActive(s) => /\ prompts'[s] = prompts[s]
                                 /\ active_tasks'[s] <= active_tasks[s]
           /\ (last_reply' = 409 /\ last_reply # 409)
                => /\ \E s \in Sessions : TaskActive(s)
                   /\ UNCHANGED <<prompts, current_task, event_history,
                                  active_tasks, task_pc, thread_pc>> ]_vars

\* a submit was answered 409 while the session's Run was executing
C6_Witness ==
    /\ last_reply = 409
    /\ \E s \in Sessions : TaskActive(s) /\ thread_pc[s] = "running"

\* C7: the events sent to a connected subscriber are, in order, the
\* session's event log: each event once, none missing, none duplicated
\* (as a safety property: what was sent so far is a prefix of the log).
C7_SubscriberSeesLogInOrder ==
    \A w \in Subscribers :
        sub_pc[w] \in {"replay", "live"}
            => IsPrefix(sub_sent[w], event_history[sub_session[w]])

\* the names a Run of session s has bound: its dataset path, its executions
OwnNames(s) ==
    { [owner |-> s, run |-> Len(prompts[s]), seq |-> k] :
        k \in 0..Len(run_records[s]) }

\* C8: with Runs of two sessions overlapping, each Run executes against
\* its own environment and history (what it bound and appended, nothing
\* else, nothing lost), and a session's code events carry only its records.
C8_SessionsHaveOwnEnvironment ==
    \A s \in Sessions :
        /\ thread_pc[s] = "running"
              => /\ execution_history = run_records[s]
                 /\ persistent_namespace = OwnNames(s)
        /\ \A i \in DOMAIN event_history[s] :
              event_history[s][i].type = "code"
                  => event_history[s][i].rec.owner = s

\* C9: for a Run that completed normally, every record the Run appended was
\* emitted as exactly one code event, in history order, before any
\* completion event of the Run.
C9_EveryRecordStreamedBeforeCompletion ==
    \A s \in Sessions :
        (/\ event_history[s] # <<>>
         /\ IsStatus(Last(event_history[s]), "completed")
         /\ ~TaskActive(s))
            => LET seg == RunSegment(s)
                   own == SelectSeq(CodeRecords(seg),
                                    LAMBDA r : r.owner = s /\ r.run = Len(prompts[s]))
               IN /\ own = [i \in 1..Len(run_records[s]) |-> Shown(run_records[s][i])]
                  /\ \A i, j \in DOMAIN seg :
                        (seg[i].type = "code" /\ IsCompletionEvent(seg[j])) => i < j

\* index of the latest "status running" event before position i (0 if none)
RunStartBefore(log, i) ==
    Max({0} \cup { k \in 1..i : IsStatus(log[k], "running") })

\* the code event at position i of the log, with step st, carries record
\* rec and is followed by exactly rec's plot events, in capture order
CodeGroupAt(log, i, rec) ==
    LET n == Len(rec.plots)
        st == log[i].step
    IN /\ log[i].rec = Shown(rec)
       /\ Len(log) >= i + n
       /\ \A j \in 1..n :
             /\ log[i + j].type = "plot"
             /\ log[i + j].step = st
             /\ log[i + j].plot_index = j
             /\ log[i + j].image = rec.plots[j]
       /\ (Len(log) > i + n => log[i + n + 1].type # "plot")

\* C10: each streamed record at 1-based history position i yields one code
\* event with step i carrying the record, immediately followed by one plot
\* event per image in capture order (plot_index 1..n), each with step i;
\* the steps of a Run's code events are 1, 2, 3, ... without gap or repeat.
C10_CodeAndPlotEventsPerRecord ==
    /\ [](\A s \in Sessions :
            LET log == event_history[s]
            IN \A i \in DOMAIN log :
                  /\ log[i].type = "code"
                        => log[i].step =
                              1 + Cardinality({ k \in RunStartBefore(log, i)..(i - 1) :
                                                  k >= 1 /\ log[k].type = "code" })
                  /\ log[i].type = "plot"
                        => /\ i > 1
                           /\ log[i - 1].type \in {"code", "plot"}
                           /\ log[i - 1].step = log[i].step)
    /\ [][ \A s \in Sessions :
             LET old == Len(event_history[s])
                 log == event_history'[s]
             IN \A i \in (old + 1)..Len(log) :
                   log[i].type = "code"
                     => /\ log[i].step \in DOMAIN execution_history
                        /\ CodeGroupAt(log, i, execution_history[log[i].step]) ]_vars

\* a second record with MaxPlots images was streamed
C10_Witness ==
    \E s \in Sessions :
        \E i \in DOMAIN event_history[s] :
            /\ event_history[s][i].type = "plot"
            /\ event_history[s][i].step = 2
            /\ event_history[s][i].plot_index = MaxPlots

\* ------------------------------------------------------------------------
\* Terminal events of a Run (checked under SpecServer)
\* ------------------------------------------------------------------------
\* the kind of an event: its type, or for a status event its stage
Kind(e) == IF e.type = "status" THEN e.stage ELSE e.type

Kinds(evs) == [k \in 1..Len(evs) |-> Kind(evs[k])]

\* index of the latest "status starting" event at or before position i
StartBefore(log, i) ==
    Max({0} \cup { k \in 1..i : IsStatus(log[k], "starting") })

\* the events a step appended to the log of session s
Appended(s) ==
    SubSeq(event_history'[s], Len(event_history[s]) + 1, Len(event_history'[s]))

Holds(evs, kind) == \E k \in DOMAIN evs : Kind(evs[k]) = kind

CompletionOrders ==
    { p \o <<"assistant_message", "metadata">> \o a \o <<"completed">> :
        p \in {<<>>, <<"plan">>}, a \in {<<>>, <<"artifacts">>} }

\* C11: a Run that completes normally emits plan (only if a plan exists),
\* exactly one assistant_message, metadata, artifacts (only if any) and
\* status completed, in this order and with nothing in between; status
\* completed is the last event of the Run (the next event, if any, is the
\* status starting of the next Run).
C11_CompletionEventsInOrder ==
    /\ [](\A s \in Sessions :
            LET log == event_history[s]
            IN \A i \in DOMAIN log :
                  IsStatus(log[i], "completed")
                    => LET from == StartBefore(log, i)
                           comp == SelectSeq(SubSeq(log, from, i), IsCompletionEvent)
                       IN /\ from >= 1
                          /\ Kinds(comp) \in CompletionOrders
                          /\ \A j \in (i - Len(comp) + 1)..i : IsCompletionEvent(log[j])
                          /\ (i < Len(log) => IsStatus(log[i + 1], "starting")))
    /\ [][ \A s \in Sessions :
             Holds(Appended(s), "completed")
               => /\ Holds(Appended(s), "plan") <=> result[s].plan # "None"
                  /\ Holds(Appended(s), "artifacts") <=> result[s].log_path # "" ]_vars

\* a Run that streamed a code event has completed
C11_Witness ==
    \E s \in Sessions :
        /\ event_history[s] # <<>>
        /\ IsStatus(Last(event_history[s]), "completed")
        /\ Holds(RunSegment(s), "code")

\* C12: when agent.run raised (the reasoning engine failed), the task
\* broadcasts exactly one error event followed by status failed; a failed
\* Run holds one error event, directly before status failed, and none of
\* plan, assistant_message, metadata, artifacts, status completed; status
\* failed is the last event of the Run.
C12_EngineFailureReported ==
    /\ [](\A s \in Sessions :
            LET log == event_history[s]
            IN \A i \in DOMAIN log :
                  /\ IsStatus(log[i], "failed")
                       => LET seg == SubSeq(log, StartBefore(log, i), i)
                          IN /\ i > 1
                             /\ log[i - 1].type = "error"
                             /\ Len(SelectSeq(seg, LAMBDA e : e.type = "error")) = 1
                             /\ \A k \in DOMAIN seg : ~IsCompletionEvent(seg[k])
                             /\ (i < Len(log) => IsStatus(log[i + 1], "starting"))
                  /\ log[i].type = "error"
                       => i < Len(log) /\ IsStatus(log[i + 1], "failed"))
    /\ [][ \A s \in Sessions :
             (/\ agent_done[s] = "exc"
              /\ task_pc[s] = "await_agent"
              /\ task_pc'[s] # "await_agent"
              /\ loop_running')
               => Kinds(Appended(s)) = <<"error", "failed">> ]_vars

\* a Run failed after it had streamed a code event
C12_Witness ==
    \E s \in Sessions :
        /\ event_history[s] # <<>>
        /\ IsStatus(Last(event_history[s]), "failed")
        /\ Holds(RunSegment(s), "code")

\* the terminal status events in the log of a session
TerminalEvents(s) ==
    SelectSeq(event_history[s],
              LAMBDA e : IsStatus(e, "completed") \/ IsStatus(e, "failed"))

\* C13: every accepted prompt whose Run task has ended, for whatever
\* reason, has exactly one terminal status event (status completed or
\* status failed) in the session's log; the prompt of a task still active
\* has none yet.
C13_OneTerminalStatusPerPrompt ==
    \A s \in Sessions :
        Len(TerminalEvents(s)) =
            IF task_pc[s] = "none" THEN Len(prompts[s]) ELSE Len(prompts[s]) - 1

\* ------------------------------------------------------------------------
\* Claims about the code executor (checked under SpecRepl)
\* ------------------------------------------------------------------------
\* the names bound by the statements of a command that completed
BoundIn(code, n) == { VarOf(code[k]) : k \in { j \in 1..n : Binds(code[j]) } }

BoundBy(rec) == BoundIn(rec.code, rec.ran)

\* the union of a sequence of sets
RECURSIVE UnionOf(_)
UnionOf(sets) == IF sets = <<>> THEN {} ELSE Head(sets) \cup UnionOf(Tail(sets))

\* the names bound since the history was last emptied, when statement k of
\* record j starts
BoundSince(h, j, k) ==
    UnionOf([i \in 1..(j - 1) |-> BoundBy(h[i])]) \cup BoundIn(h[j].code, k - 1)

\* C14: with no reset in between, every name bound by an earlier execution
\* (the records of the history) is in the namespace for every later one,
\* also when the earlier execution ended with an exception or a timeout
\* after the binding; a later execution that references such a name does
\* not fail with a name-resolution error.
C14_BindingsPersist ==
    /\ \A i \in DOMAIN execution_history :
          BoundBy(execution_history[i]) \subseteq persistent_namespace
    /\ repl_pc # "idle" => BoundIn(pending.code, ran) \subseteq persistent_namespace
    /\ \A i, j \in DOMAIN execution_history :
          i < j =>
            LET r == execution_history[j]
            IN \A k \in DOMAIN r.code :
                  (/\ Uses(r.code[k])
                   /\ VarOf(r.code[k]) \in BoundBy(execution_history[i])
                   /\ r.ran = k - 1)
                     => r.error # "NameError"

\* an execution was aborted by the timeout after it bound y, and a later
\* execution referenced y
C14_Witness ==
    \E i, j \in DOMAIN execution_history :
        /\ i < j
        /\ execution_history[i].code = <<"bind_y", "spin">>
        /\ execution_history[i].error = TimeoutMessage
        /\ execution_history[j].code = <<"use_y", "show">>
        /\ execution_history[j].ran >= 1

\* C15: a reference to a name that was not bound since the history was last
\* emptied does not complete: the record is a failure with a name-resolution
\* error (unless the timeout came first); agent.run empties the history and
\* leaves only the dataset variables when a Run starts, and neither a name
\* nor a record is removed while the Run lasts.
C15_ResetIsolatesRuns ==
    /\ [](\A j \in DOMAIN execution_history :
            LET r == execution_history[j]
            IN \A k \in DOMAIN r.code :
                  (Uses(r.code[k]) /\ VarOf(r.code[k]) \notin BoundSince(execution_history, j, k))
                    => /\ r.ran < k
                       /\ (r.ran = k - 1 /\ r.error # TimeoutMessage)
                            => (r.error = "NameError" /\ ~r.success))
    /\ [][ (~in_run /\ in_run')
             => /\ execution_history' = <<>>
                /\ persistent_namespace' = DatasetNames ]_vars
    /\ [][ (in_run /\ in_run')
             => /\ persistent_namespace \subseteq persistent_namespace'
                /\ IsPrefix(execution_history, execution_history') ]_vars

\* x was bound before the Run started, and the Run's reference to x failed
C15_Witness ==
    /\ in_run
    /\ "x" \in discarded
    /\ \E j \in DOMAIN execution_history :
          /\ execution_history[j].code = <<"use_x">>
          /\ execution_history[j].error = "NameError"
          /\ ~execution_history[j].success

\* C16: when no call is in progress, the history holds one record per call
\* of run_python_repl started since the last clear_history, whatever the
\* outcome of each call.
C16_OneRecordPerCall ==
    repl_pc = "idle" => Len(execution_history) = repl_calls

\* C17: no call of run_python_repl raises to its caller.
C17_NeverRaisesToCaller ==
    escaped = "none"

\* C18: no record combines the timeout message with success = true.
C18_TimeoutRecordIsFailure ==
    \A i \in DOMAIN execution_history :
        execution_history[i].error = TimeoutMessage => ~execution_history[i].success

\* C19: an execution that is in code which never returns has the timeout
\* alarm armed, whoever the caller is, so that it will be aborted.
C19_EveryExecutionBounded ==
    (/\ repl_pc = "exec"
     /\ ran < Len(pending.code)
     /\ pending.code[ran + 1] = "spin")
        => alarm = "armed"

\* C20: on a thread other than the main thread no alarm is armed, no handler
\* is installed and no record is a timeout; the execution of the code ends
\* only because the code finished or raised its own error.
C20_NoTimeoutOffMainThread ==
    /\ [](caller = "to_thread"
            => /\ alarm = "off"
               /\ sig_handler = "default"
               /\ pending.error # TimeoutMessage
               /\ \A i \in DOMAIN execution_history :
                     execution_history[i].error # TimeoutMessage)
    /\ [][ (caller = "to_thread" /\ repl_pc = "exec" /\ repl_pc' # "exec")
             => \/ ran = Len(pending.code) /\ pending'.success
                \/ pending'.error \in {"NameError", "ValueError"}
                \/ repl_pc' = "unwinding" ]_vars

\* off the main thread, a call is inside code that never returns
C20_Witness ==
    /\ caller = "to_thread"
    /\ repl_total = MaxRepl
    /\ repl_pc = "exec"
    /\ ran < Len(pending.code)
    /\ pending.code[ran + 1] = "spin"

\* the enforcement mode of a call: signal.alarm is armed or it is not
TimeoutMode(c) == IF SupportsSignalTimeout(c) THEN "enforced" ELSE "degraded"

\* what a record tells its reader about the mode it was produced in: the
\* dictionary has the keys output, error, plots, success and code; only the
\* timeout message, which needs the alarm, allows an inference
ReportedMode(rec) ==
    IF "timeout_enforced" \in DOMAIN rec
    THEN (IF rec.timeout_enforced THEN "enforced" ELSE "degraded")
    ELSE IF rec.error = TimeoutMessage THEN "enforced"
    ELSE "unreported"

\* C21: the record of every execution tells whether the execution ran with
\* the hard timeout or in the degraded mode without one, so that the records
\* of the same code under the two modes differ.
C21_ModeIsObservable ==
    \A i \in DOMAIN execution_history :
        ReportedMode(execution_history[i]) = TimeoutMode(caller)

\* the number of plt.show() calls among the first n statements of a command
RECURSIVE ShowCalls(_, _)
ShowCalls(code, n) ==
    IF n = 0 THEN 0
    ELSE ShowCalls(code, n - 1) + (IF code[n] = "show" THEN 1 ELSE 0)

\* C24: the record of an execution whose code made k plt.show() calls holds
\* exactly k images, in the order of the calls; with no call it holds none.
C24_OneImagePerShow ==
    \A i \in DOMAIN execution_history :
        LET rec == execution_history[i]
        IN rec.plots = [j \in 1..ShowCalls(rec.code, rec.ran) |-> j]

\* ========================================================================
\* Further claims about the orchestration loop (checked under SpecLoop)
\* ========================================================================

\* run never exhausts its recursion limit: the limit is max(100, 3 * max)
\* and a run takes at most 2 * max + 1 supersteps
RunNeverExhaustsSteps ==
    entry = "run" => node # "GraphRecursionError"

\* C26: stream_run drives the workflow to the same end as run: no invocation
\* stops before the loop reached its end (run never does), whatever the
\* value of max_iterations and whatever the engine answers.
C26_StreamRunEndsWhereRunEnds ==
    node # "GraphRecursionError"

\* C30: at a conditional edge taken while the repetition heuristic detects a
\* repetition, the loop goes where it goes without the heuristic (to the end
\* on an exhausted budget, on a solution marker or on a response without
\* ActionRequests, to the Act step otherwise), and the edge changes neither
\* the message sequence nor iteration_count.
C30_HeuristicIsAdvisory ==
    [][ (node = "should_continue" /\ RepetitionDetected(messages))
          => /\ node' = IF \/ iteration_count >= max_iterations
                           \/ Last(messages).type # "ai"
                           \/ ContainsSolutionMarker(Last(messages).content)
                           \/ Last(messages).tool_calls = <<>>
                        THEN "END" ELSE "execute_tools"
             /\ messages' = messages
             /\ iteration_count' = iteration_count ]_vars

\* the loop continued to the Act step although the heuristic detected a
\* repetition in the last six messages
C30_Witness ==
    /\ node = "execute_tools"
    /\ RepetitionDetected(messages)
    /\ Last(messages).tool_calls # <<>>

\* the content without its leading and trailing whitespace tokens
Trimmed(body) ==
    LET inked == { k \in DOMAIN body : body[k] # " " }
    IN IF inked = {} THEN <<>>
       ELSE SubSeq(body, CHOOSE a \in inked : \A k \in inked : a <= k,
                         CHOOSE z \in inked : \A k \in inked : k <= z)

\* positions i < j delimit the first well-formed solution block of content:
\* an open marker at i with none before it, the first close marker after i
\* at j, markers in any letter case
FirstSolutionBlock(content, i, j) ==
    /\ i < j
    /\ Lower(content[i]) = "<solution>"
    /\ Lower(content[j]) = "</solution>"
    /\ \A k \in 1..(i - 1) : Lower(content[k]) # "<solution>"
    /\ \A k \in (i + 1)..(j - 1) : Lower(content[k]) # "</solution>"

\* C25: a response whose content holds the solution open marker, in any
\* letter case, ends the loop at that response even when it carries
\* ActionRequests; and when the run has ended on a message with a well-formed
\* solution block, the reported solution is the body of the first such
\* block (without surrounding whitespace).
C25_SolutionMarkerEndsLoop ==
    /\ [][ (/\ node = "should_continue"
            /\ Last(messages).type = "ai"
            /\ ContainsSolutionMarker(Last(messages).content))
              => node' = "END" ]_vars
    /\ [](entry = "run" /\ node = "END" /\ Last(messages).type = "ai"
            => \A i, j \in DOMAIN Last(messages).content :
                  FirstSolutionBlock(Last(messages).content, i, j)
                     => ReportedSolution =
                           Trimmed(SubSeq(Last(messages).content, i + 1, j - 1)))

\* a run ended, with budget left, on a response that carries ActionRequests
\* and a solution block that is neither the first marker nor the only block
C25_Witness ==
    /\ entry = "run"
    /\ node = "END"
    /\ iteration_count < max_iterations
    /\ Last(messages).tool_calls # <<>>
    /\ Last(messages).content = SolutionContent
    /\ ReportedSolution = <<"done">>

\* ========================================================================
\* Claims about the interface of python_executor (checked under SpecStore)
\* ========================================================================

\* C22: inject_variables(v) sets each key of v to its value, leaves every
\* entry of the namespace whose name is not a key of v as it was, and does
\* not touch the execution history or any record.
C22_InjectUpdatesOnlyItsKeys ==
    [][ api_op' = "inject_variables"
          => /\ \A k \in DOMAIN api_arg' :
                   k \in DOMAIN namespace' /\ namespace'[k] = api_arg'[k]
             /\ \A k \in DOMAIN namespace \ DOMAIN api_arg' :
                   k \in DOMAIN namespace' /\ namespace'[k] = namespace[k]
             /\ history_list' = history_list
             /\ objects' = objects ]_vars

\* an injection overwrote DATASET_PATH in a namespace that holds a name the
\* code assigned, with a record in the history
C22_Witness ==
    /\ api_op = "inject_variables"
    /\ api_arg = "DATASET_PATH" :> "b.csv"
    /\ DOMAIN namespace = {"DATASET_PATH", "x"}
    /\ namespace["x"] = "assigned"
    /\ history_list # <<>>

\* C23: the list returned by get_execution_history is a point-in-time,
\* read-only copy: later run_python_repl and clear_history calls change
\* neither its length nor its records, and what the caller changes through
\* it changes neither the history of the executor nor any record in it.
C23_HistoryCopyIsIsolated ==
    /\ [][ api_op' \in {"run_python_repl", "clear_history"}
             => RecordsOf(returned_list)' = RecordsOf(returned_list) ]_vars
    /\ [][ api_op' \in {"caller_edits_list", "caller_edits_record"}
             => RecordsOf(history_list)' = RecordsOf(history_list) ]_vars

\* the part of C23 that concerns the list itself: what the executor does
\* later, and what the caller does to the list, stays on its own side
ListCopyIsIsolated ==
    /\ [][ api_op' \in {"run_python_repl", "clear_history"}
             => RecordsOf(returned_list)' = RecordsOf(returned_list) ]_vars
    /\ [][ api_op' = "caller_edits_list"
             => RecordsOf(history_list)' = RecordsOf(history_list) ]_vars

\* ========================================================================
\* Claims about the tag extractors (checked under SpecTags)
\* ========================================================================

\* the content holds an open marker of the label and, behind it, a close
\* marker of the label, in any letter case
HasPair(content, label) ==
    \E i, j \in DOMAIN content :
        /\ i < j
        /\ Lower(content[i]) = OpenMarker(label)
        /\ Lower(content[j]) = CloseMarker(label)

\* positions i < j delimit the first well-formed block of the label
FirstBlockOf(content, label, i, j) ==
    /\ i < j
    /\ Lower(content[i]) = OpenMarker(label)
    /\ Lower(content[j]) = CloseMarker(label)
    /\ \A k \in 1..(i - 1) : Lower(content[k]) # OpenMarker(label)
    /\ \A k \in (i + 1)..(j - 1) : Lower(content[k]) # CloseMarker(label)

\* the entries of the label among the tagged blocks, in order
EntriesOf(label) == SelectSeq(tagged, LAMBDA e : e.tag = label)

\* C28: on '<plan>A</plan><think>B</think>' extract_tagged_blocks returns
\* the plan body 'A' and then the reasoning body 'B'; and for a content in
\* which a label has an open marker without a close marker behind it, or a
\* close marker without an open marker before it, and so no pair at all, it
\* returns no entry for that label.
C28_ExampleAndUnmatchedMarkers ==
    "tagged" \in tag_done
        => /\ msg_content = ExampleContent
                => tagged = << [tag |-> "plan", body |-> <<"A">>],
                               [tag |-> "think", body |-> <<"B">>] >>
           /\ \A label \in Labels :
                 ~HasPair(msg_content, label) => EntriesOf(label) = <<>>

\* the extractor ran on a content with a plan open marker that is never
\* closed, followed by a complete reasoning block
C28_Witness ==
    /\ "tagged" \in tag_done
    /\ msg_content = <<"<plan>", "A", "<think>", "</think>">>
    /\ tagged = << [tag |-> "think", body |-> <<>>] >>

\* _extract_and_display_tags finds the first well-formed block of each label
DisplayFindsFirstBlock ==
    "displayed" \in tag_done
        => \A label \in Labels : \A i, j \in DOMAIN msg_content :
              FirstBlockOf(msg_content, label, i, j)
                 => /\ displayed[label].found
                    /\ displayed[label].body =
                          Trimmed(SubSeq(msg_content, i + 1, j - 1))

\* C29: for every label among plan, think and solution and every content
\* with a well-formed open/close pair of the label (markers in any letter
\* case, anywhere among the blocks of other labels), extraction yields the
\* body of the label's first well-formed block.
C29_FirstBlockOfEveryLabel ==
    /\ DisplayFindsFirstBlock
    /\ "tagged" \in tag_done
          => \A label \in Labels : \A i, j \in DOMAIN msg_content :
                FirstBlockOf(msg_content, label, i, j)
                   => /\ EntriesOf(label) # <<>>
                      /\ Head(EntriesOf(label)).body =
                            Trimmed(SubSeq(msg_content, i + 1, j - 1))

\* ========================================================================
\* Claims about the fan-out of events (checked under SpecFanout)
\* ========================================================================

\* the events a step appended to the log of the subscribers' session
NewEvents ==
    SubSeq(event_history[BusSession]', Len(event_history[BusSession]) + 1,
           Len(event_history[BusSession]'))

\* C27: a broadcast does not wait for any subscriber: whatever the
\* subscribers' queues hold, a step that broadcasts appends its events to
\* the session's log once (the log grows by them, ids without gaps) and
\* puts them, in order, at the end of the queue of every subscribed
\* subscriber.
C27_BroadcastNeverBlocks ==
    [][ event_history[BusSession]' # event_history[BusSession]
          => /\ IsPrefix(event_history[BusSession], event_history[BusSession]')
             /\ \A k \in DOMAIN event_history[BusSession]' :
                   event_history[BusSession]'[k].id = k
             /\ \A w \in listeners[BusSession] :
                   sub_queue'[w] = sub_queue[w] \o NewEvents ]_vars

\* a subscriber left events unconsumed in its queue while the other
\* subscriber has been sent the whole log
C27_Witness ==
    /\ listeners[BusSession] = Subscribers
    /\ Len(sub_queue["w2"]) >= 3
    /\ sub_sent["w2"] = <<>>
    /\ sub_sent["w1"] = event_history[BusSession]
    /\ Len(event_history[BusSession]) >= 3

\* every reasoning-engine response of the run so far carries no
\* ActionRequest and no solution marker
NoResponseRequestsActions ==
    \A i \in DOMAIN messages :
        (messages[i].type = "ai" /\ messages[i].origin = "llm")
            => /\ messages[i].tool_calls = <<>>
               /\ ~ContainsSolutionMarker(messages[i].content)

\* C31: with max_iterations >= 1 and an engine whose responses carry no
\* ActionRequest and no solution marker, the run goes from its first
\* response straight to its end: one engine call, no tool executed,
\* iteration_count = 1.
C31_PlainResponseEndsInOneIteration ==
    /\ [](max_iterations >= 1 /\ NoResponseRequestsActions
            => /\ node \notin {"execute_tools", "GraphRecursionError"}
               /\ llm_calls <= 1
               /\ dispatched = <<>>
               /\ (node = "END" => llm_calls = 1 /\ iteration_count = 1))
    /\ [][ (/\ max_iterations >= 1
            /\ node = "should_continue"
            /\ NoResponseRequestsActions) => node' = "END" ]_vars

\* a run with a budget of more than one iteration ended after one plain
\* response
C31_Witness ==
    /\ node = "END"
    /\ max_iterations > 1
    /\ llm_calls = 1
    /\ Last(messages) = AIMessage(PlainContent, NoCalls, "llm")

\* ========================================================================
\* Further claims about the session layer
\* ========================================================================

\* the number of Runs a session's log shows as started
StartsIn(log) == Cardinality({ i \in DOMAIN log : IsStatus(log[i], "starting") })

\* the records of a session's current Run as code payloads show them
ShownRecords(s) == [i \in 1..Len(run_records[s]) |-> Shown(run_records[s][i])]

\* C32: in a session's second Run the code events of the Run are, one for
\* one and in order, the records the Run appended: at every moment they are
\* the first of those records (no record of the first Run is emitted again),
\* and once the Run has completed normally they are all of them.
C32_SecondRunStreamsItsOwnRecords ==
    \A s \in Sessions :
        (StartsIn(event_history[s]) = 2 /\ Len(prompts[s]) = 2)
            => LET emitted == CodeRecords(RunSegment(s))
               IN /\ IsPrefix(emitted, ShownRecords(s))
                  /\ (IsStatus(Last(event_history[s]), "completed") /\ ~TaskActive(s))
                        => emitted = ShownRecords(s)

\* ========================================================================
\* Claims about agents that serve several Runs and about streamed plans
\* ========================================================================

\* C33: every Run starts with iteration count 0: whenever the workflow is
\* started on an agent object, new or reused, the iteration count it starts
\* with is 0, so the Run has its whole budget of engine calls.
C33_EveryRunStartsAtZero ==
    [][ (node \in {"idle", "END"} /\ node' = "generate") => iteration_count' = 0 ]_vars

\* the plan text most recently extracted among the assistant messages of
\* the Run, or NoPlan when none of them holds a plan block
LatestPlanOf(msgs) ==
    LET withPlan == { i \in DOMAIN msgs :
                        /\ msgs[i].type = "ai"
                        /\ SearchBlock(msgs[i].content, "plan", 1).found }
    IN IF withPlan = {} THEN NoPlan
       ELSE PlanText(Strip(SearchBlock(msgs[Max(withPlan)].content, "plan", 1).body))

\* C34: when a Run of MLEngineerAgent.run has ended, the plan it reports
\* (result['plan'], the payload of the session's plan event) is the most
\* recently extracted plan text among the Run's assistant messages, and it
\* is null exactly when no assistant message of the Run held a plan; for a
\* verbose or silent agent, new or reused.
C34_ReportedPlanIsLatestOfRun ==
    (entry = "run" /\ node = "END") => current_plan = LatestPlanOf(messages)

HasBlock(c, label) == SearchBlock(c, label, 1).found

BlockText(c, label) == Strip(SearchBlock(c, label, 1).body)

EventsOfType(evs, t) == SelectSeq(evs, LAMBDA e : e.type = t)

\* the plan event the stream owes: the first plan block of the earliest
\* assistant message that holds one
OwedPlanEvents(msgs) ==
    LET withPlan == { i \in DOMAIN msgs :
                        msgs[i].type = "ai" /\ HasBlock(msgs[i].content, "plan") }
    IN IF withPlan = {} THEN <<>>
       ELSE LET first == CHOOSE i \in withPlan : \A j \in withPlan : i <= j
            IN <<PlanBlockEvent(BlockText(msgs[first].content, "plan"))>>

\* one thinking event for every assistant message that holds a think block
OwedThinkingEvents(msgs) ==
    LET thinkers == SelectSeq(msgs, LAMBDA m : m.type = "ai" /\ HasBlock(m.content, "think"))
    IN [i \in 1..Len(thinkers) |-> ThinkingEvent(BlockText(thinkers[i].content, "think"))]

\* C39: in one stream_analysis stream at most one plan event is emitted, and
\* it carries the first plan block of the earliest assistant message that
\* holds one; later messages with plan blocks emit no further plan event; a
\* thinking event is emitted for every assistant message with a think block.
C39_OnePlanEventEveryThinking ==
    entry = "stream_analysis"
        => /\ EventsOfType(stream_events, "plan") = OwedPlanEvents(messages)
           /\ EventsOfType(stream_events, "thinking") = OwedThinkingEvents(messages)

\* two assistant messages with plan blocks have been streamed, the first of
\* them with a think block
C39_Witness ==
    /\ entry = "stream_analysis"
    /\ \E i, j \in DOMAIN messages :
          /\ i < j
          /\ messages[i].content = PlanThinkContent
          /\ messages[j].content = TwoPlansContent
    /\ Len(EventsOfType(stream_events, "plan")) = 1
    /\ Len(EventsOfType(stream_events, "thinking")) >= 1

\* C35: when a Run has failed, every record it appended to the history
\* before the failure has been emitted as a code event of the Run: the
\* poller drains the history before it stops.
C35_FailedRunStreamsItsRecords ==
    \A s \in Sessions :
        (/\ event_history[s] # <<>>
         /\ IsStatus(Last(event_history[s]), "failed")
         /\ ~TaskActive(s))
            => \A i \in DOMAIN run_records[s] :
                  \E j \in DOMAIN CodeRecords(RunSegment(s)) :
                      CodeRecords(RunSegment(s))[j] = Shown(run_records[s][i])

\* the events a step appends to a session's log
AppendedTo(s) ==
    SubSeq(event_history[s]', Len(event_history[s]) + 1, Len(event_history[s]'))

\* C36: when the agent cannot be constructed for an accepted prompt, the
\* session broadcasts status starting, an error event and status failed, in
\* this order and nothing else; no Run starts (the sandbox and the history
\* are left as they are, no worker thread or poller starts, no record is
\* attributed to the prompt) and the session then accepts a new prompt.
C36_ConstructionFailureStartsNoRun ==
    [][ \A s \in Sessions :
          (loop_running' /\ task_pc[s] = "created" /\ task_pc'[s] = "none")
            => /\ Len(AppendedTo(s)) = 3
               /\ IsStatus(AppendedTo(s)[1], "starting")
               /\ AppendedTo(s)[2].type = "error"
               /\ IsStatus(AppendedTo(s)[3], "failed")
               /\ UNCHANGED <<persistent_namespace, execution_history,
                              run_records, thread_pc, poller_pc>>
               /\ ChatGuard(s)' ]_vars

\* a session's second prompt failed at construction while the sandbox still
\* holds what its first Run left
C36_Witness ==
    \E s \in Sessions :
        /\ Len(prompts[s]) = 2
        /\ ~TaskActive(s)
        /\ execution_history # <<>>
        /\ RunSegment(s) # <<>>
        /\ Len(RunSegment(s)) = 2
        /\ RunSegment(s)[1].type = "error"
        /\ IsStatus(RunSegment(s)[2], "failed")

IsTerminalStatus(e) == IsStatus(e, "completed") \/ IsStatus(e, "failed")

TerminalCount(log) == Cardinality({ i \in DOMAIN log : IsTerminalStatus(log[i]) })

\* C37: once the terminal status event (completed or failed) of a session's
\* latest Run has been broadcast, a submit to the session is accepted:
\* current_task is cleared by the step that broadcasts the event, before
\* the event loop handles any other request.
C37_SubmitAfterTerminalEventAccepted ==
    \A s \in Sessions :
        (/\ prompts[s] # <<>>
         /\ TerminalCount(event_history[s]) = Len(prompts[s])
         /\ IsTerminalStatus(Last(event_history[s])))
            => ChatGuard(s)

\* C38: in every record of the history success = true implies an empty
\* error field and success = false implies a non-empty one, also for code
\* that wrote to standard error without raising.
C38_SuccessIffNoError ==
    \A i \in DOMAIN execution_history :
        /\ execution_history[i].success => execution_history[i].error = ""
        /\ ~execution_history[i].success => execution_history[i].error # ""
====
